---- MODULE Spec2Model ----
(***************************************************************************)
(* Model of the AI exam proctoring system (ai_exam_system): the four       *)
(* per-modality evaluators (FaceTracker, YOLODetector, GazeTracker,        *)
(* AudioSurveillance) and the alert log and counter kept by app.py.        *)
(*                                                                         *)
(* Time is the value of time.time(), counted in half seconds.  The clock   *)
(* starts at Epoch, later than every cooldown, as the wall clock does      *)
(* (last_alert_time = 0 never suppresses a first alert).                   *)
(***************************************************************************)
EXTENDS Integers, Sequences, FiniteSets, TLC

(* ------------------------------ bounds --------------------------------- *)
Horizon == 9
AudioHorizon == 11
MaxFaces == 3
ExtraWords == 5
AppTicks == 1
MaxMonitors == 1
MaxAlerts == 3
WindowSamples == 2
MaxLoops == 2
ReplayHorizon == 6
MaxReplay == 2
FaceHorizon == 11

(* ------------------------- program constants --------------------------- *)
FaceTracker_alert_threshold == 5
FaceTracker_alert_cooldown == 3
YOLODetector_alert_cooldown == 5
GazeTracker_alert_threshold == 3
GazeTracker_alert_cooldown == 5
head_pose_threshold == 30
AudioSurveillance_alert_cooldown == 10
ContinuousSpeechWords == 10
silence_threshold == 500
BlinkEar == 20

(* s seconds, in half seconds *)
Secs(s) == s + s
Epoch == Secs(AudioSurveillance_alert_cooldown) + 1
MaxTime(component) ==
  Epoch + Secs(IF component \in {"audio", "loop"} THEN AudioHorizon
               ELSE IF component = "faces" THEN FaceHorizon
               ELSE Horizon)

(* Python's None and a set value of an optional attribute *)
None == <<>>
Some(t) == <<t>>
Val(x) == x[1]

(* alert_message values; NoAlert is the None an evaluator returns *)
Msg(k, n, items) == [kind |-> k, n |-> n, items |-> items]
NoAlert == Msg("none", 0, {})

VARIABLES
  now,                \* time.time()
  sel,                \* the component the behaviour exercises
  face_tracker,       \* FaceTracker attributes
  yolo_detector,      \* YOLODetector attributes
  gaze_tracker,       \* GazeTracker attributes
  audio_surveillance, \* index in monitors of the instance the global names
  monitors,           \* the AudioSurveillance instances created so far
  camera,             \* app.camera is not None
  alert_count,        \* app.alert_count
  alerts,             \* the rows of the alerts table, in insertion order
  session,            \* per client, session['student_id'] or None
  streams,            \* per client, the thread serving its /video_feed,
                      \* or its /exam request past the camera test
  since,              \* history: Len(alerts) at the last logout
  incs,               \* history: alert_count += 1 completed since then
  lastCall,           \* history: the latest evaluator invocation
  emitted,            \* history: alerts returned by the evaluator so far
  run,                \* history: the current run of violating observations
  scen                \* history: progress through the scenario sequence

evalVars ==
  <<face_tracker, yolo_detector, gaze_tracker, audio_surveillance, monitors>>
appVars == <<camera, alert_count, alerts, session, streams, since, incs>>
histVars == <<lastCall, emitted, run, scen>>
vars == <<now, sel, face_tracker, yolo_detector, gaze_tracker,
          audio_surveillance, monitors, camera, alert_count, alerts, session,
          streams, since, incs, lastCall, emitted, run, scen>>

(* ---------------------------- FaceTracker ------------------------------ *)
FaceTrackerInit ==
  [no_face_start_time |-> None, multiple_faces_start_time |-> None,
   last_alert_time |-> 0]

(* the branch  if face_count == 0 *)
no_face_branch_nocooldown(self, current_time) ==
  LET fire == /\ self.no_face_start_time # None
              /\ (current_time - Val(self.no_face_start_time))
                   > Secs(FaceTracker_alert_threshold)
  IN [self |-> [self EXCEPT
                  !.no_face_start_time =
                     IF @ = None THEN Some(current_time) ELSE @,
                  !.last_alert_time = IF fire THEN current_time ELSE @,
                  !.multiple_faces_start_time = None],
      alert |-> IF fire THEN Msg("NO_FACE", 0, {}) ELSE NoAlert]

no_face_branch_atleast(self, current_time) ==
  LET fire == /\ self.no_face_start_time # None
              /\ (current_time - Val(self.no_face_start_time))
                   >= Secs(FaceTracker_alert_threshold)
              /\ (current_time - self.last_alert_time)
                   > Secs(FaceTracker_alert_cooldown)
  IN [self |-> [self EXCEPT
                  !.no_face_start_time =
                     IF @ = None THEN Some(current_time) ELSE @,
                  !.last_alert_time = IF fire THEN current_time ELSE @,
                  !.multiple_faces_start_time = None],
      alert |-> IF fire THEN Msg("NO_FACE", 0, {}) ELSE NoAlert]

no_face_branch_keepmultiple(self, current_time) ==
  LET fire == /\ self.no_face_start_time # None
              /\ (current_time - Val(self.no_face_start_time))
                   > Secs(FaceTracker_alert_threshold)
              /\ (current_time - self.last_alert_time)
                   > Secs(FaceTracker_alert_cooldown)
  IN [self |-> [self EXCEPT
                  !.no_face_start_time =
                     IF @ = None THEN Some(current_time) ELSE @,
                  !.last_alert_time = IF fire THEN current_time ELSE @],
      alert |-> IF fire THEN Msg("NO_FACE", 0, {}) ELSE NoAlert]

no_face_branch_rearm(self, current_time) ==
  LET fire == /\ self.no_face_start_time # None
              /\ (current_time - Val(self.no_face_start_time))
                   > Secs(FaceTracker_alert_threshold)
              /\ (current_time - self.last_alert_time)
                   > Secs(FaceTracker_alert_cooldown)
  IN [self |-> [self EXCEPT
                  !.no_face_start_time =
                     IF fire THEN None
                     ELSE IF @ = None THEN Some(current_time) ELSE @,
                  !.last_alert_time = IF fire THEN current_time ELSE @,
                  !.multiple_faces_start_time = None],
      alert |-> IF fire THEN Msg("NO_FACE", 0, {}) ELSE NoAlert]

no_face_branch_slowcooldown(self, current_time) ==
  LET fire == /\ self.no_face_start_time # None
              /\ (current_time - Val(self.no_face_start_time))
                   > Secs(FaceTracker_alert_threshold)
              /\ (current_time - self.last_alert_time)
                   > Secs(FaceTracker_alert_threshold
                            + FaceTracker_alert_cooldown)
  IN [self |-> [self EXCEPT
                  !.no_face_start_time =
                     IF @ = None THEN Some(current_time) ELSE @,
                  !.last_alert_time = IF fire THEN current_time ELSE @,
                  !.multiple_faces_start_time = None],
      alert |-> IF fire THEN Msg("NO_FACE", 0, {}) ELSE NoAlert]

no_face_branch(self, current_time) ==
  LET fire == /\ self.no_face_start_time # None
              /\ (current_time - Val(self.no_face_start_time))
                   > Secs(FaceTracker_alert_threshold)
              /\ (current_time - self.last_alert_time)
                   > Secs(FaceTracker_alert_cooldown)
  IN [self |-> [self EXCEPT
                  !.no_face_start_time =
                     IF @ = None THEN Some(current_time) ELSE @,
                  !.last_alert_time = IF fire THEN current_time ELSE @,
                  !.multiple_faces_start_time = None],
      alert |-> IF fire THEN Msg("NO_FACE", 0, {}) ELSE NoAlert]

(* the branch  elif face_count == 1 *)
single_face_branch_keepabsence(self) ==
  [self |-> [self EXCEPT !.multiple_faces_start_time = None],
   alert |-> NoAlert]

single_face_branch(self) ==
  [self |-> [self EXCEPT !.no_face_start_time = None,
                         !.multiple_faces_start_time = None],
   alert |-> NoAlert]

(* the branch  elif face_count > 1 *)
multiple_faces_branch_restamp(self, current_time, face_count) ==
  LET due == /\ self.multiple_faces_start_time # None
             /\ (current_time - Val(self.multiple_faces_start_time))
                  > Secs(FaceTracker_alert_threshold)
      fire == /\ due
              /\ (current_time - self.last_alert_time)
                   > Secs(FaceTracker_alert_cooldown)
  IN [self |-> [self EXCEPT
                  !.multiple_faces_start_time =
                     IF @ = None THEN Some(current_time) ELSE @,
                  !.last_alert_time = IF due THEN current_time ELSE @,
                  !.no_face_start_time = None],
      alert |-> IF fire THEN Msg("MULTIPLE_FACES", face_count, {})
                ELSE NoAlert]

multiple_faces_branch_atleast(self, current_time, face_count) ==
  LET fire == /\ self.multiple_faces_start_time # None
              /\ (current_time - Val(self.multiple_faces_start_time))
                   >= Secs(FaceTracker_alert_threshold)
              /\ (current_time - self.last_alert_time)
                   > Secs(FaceTracker_alert_cooldown)
  IN [self |-> [self EXCEPT
                  !.multiple_faces_start_time =
                     IF @ = None THEN Some(current_time) ELSE @,
                  !.last_alert_time = IF fire THEN current_time ELSE @,
                  !.no_face_start_time = None],
      alert |-> IF fire THEN Msg("MULTIPLE_FACES", face_count, {})
                ELSE NoAlert]

multiple_faces_branch(self, current_time, face_count) ==
  LET fire == /\ self.multiple_faces_start_time # None
              /\ (current_time - Val(self.multiple_faces_start_time))
                   > Secs(FaceTracker_alert_threshold)
              /\ (current_time - self.last_alert_time)
                   > Secs(FaceTracker_alert_cooldown)
  IN [self |-> [self EXCEPT
                  !.multiple_faces_start_time =
                     IF @ = None THEN Some(current_time) ELSE @,
                  !.last_alert_time = IF fire THEN current_time ELSE @,
                  !.no_face_start_time = None],
      alert |-> IF fire THEN Msg("MULTIPLE_FACES", face_count, {})
                ELSE NoAlert]

(* detect_faces from the point where face_count is known *)
detect_faces(self, current_time, face_count) ==
  IF face_count = 0 THEN no_face_branch(self, current_time)
  ELSE IF face_count = 1 THEN single_face_branch(self)
  ELSE multiple_faces_branch(self, current_time, face_count)

reset_timers_keepabsence(self) ==
  [self EXCEPT !.multiple_faces_start_time = None, !.last_alert_time = 0]

reset_timers(self) ==
  [self EXCEPT !.no_face_start_time = None,
               !.multiple_faces_start_time = None,
               !.last_alert_time = 0]

(* ---------------------------- YOLODetector ----------------------------- *)
YOLODetectorInit == [last_alert_time |-> 0]

ProhibitedClasses == {"cell phone", "book", "laptop"}
BoxClasses == ProhibitedClasses \cup {"person", "cup"}

RECURSIVE CountOf(_, _)
CountOf(boxes, c) ==
  IF boxes = <<>> THEN 0
  ELSE (IF Head(boxes) = c THEN 1 ELSE 0) + CountOf(Tail(boxes), c)

(* the 'class' entries of suspicious_detections, in detection order *)
SuspiciousDetections(boxes) ==
  SelectSeq(boxes, LAMBDA c : c \in ProhibitedClasses)

(* set(objects_detected) *)
ObjectSet(dets) == {dets[i] : i \in 1..Len(dets)}

(* detect_objects with the second gate reading the last_alert_time the   *)
(* call started with                                                      *)
detect_objects_stalegate(self, current_time, boxes, raises) ==
  IF raises THEN [self |-> self, alert |-> NoAlert]
  ELSE
    LET person_count == CountOf(boxes, "person")
        suspicious_detections == SuspiciousDetections(boxes)
        fire1 == /\ person_count > 1
                 /\ (current_time - self.last_alert_time)
                      > Secs(YOLODetector_alert_cooldown)
        fire2 == /\ suspicious_detections # <<>>
                 /\ (current_time - self.last_alert_time)
                      > Secs(YOLODetector_alert_cooldown)
    IN [self |-> [self EXCEPT !.last_alert_time =
                     IF fire1 \/ fire2 THEN current_time ELSE @],
        alert |-> IF fire2
                  THEN Msg("SUSPICIOUS_OBJECTS", 0,
                           ObjectSet(suspicious_detections))
                  ELSE IF fire1
                  THEN Msg("MULTIPLE_PEOPLE", person_count, {})
                  ELSE NoAlert]

(* detect_objects with no cooldown on the prohibited-objects alert *)
detect_objects_ungated(self, current_time, boxes, raises) ==
  IF raises THEN [self |-> self, alert |-> NoAlert]
  ELSE
    LET person_count == CountOf(boxes, "person")
        suspicious_detections == SuspiciousDetections(boxes)
        fire1 == /\ person_count > 1
                 /\ (current_time - self.last_alert_time)
                      > Secs(YOLODetector_alert_cooldown)
        fire2 == suspicious_detections # <<>>
    IN [self |-> [self EXCEPT !.last_alert_time =
                     IF fire1 \/ fire2 THEN current_time ELSE @],
        alert |-> IF fire2
                  THEN Msg("SUSPICIOUS_OBJECTS", 0,
                           ObjectSet(suspicious_detections))
                  ELSE IF fire1
                  THEN Msg("MULTIPLE_PEOPLE", person_count, {})
                  ELSE NoAlert]

(* detect_objects; boxes are the class names of the boxes the model    *)
(* returns, raises is the model call throwing                           *)
detect_objects(self, current_time, boxes, raises) ==
  IF raises THEN [self |-> self, alert |-> NoAlert]
  ELSE
    LET person_count == CountOf(boxes, "person")
        suspicious_detections == SuspiciousDetections(boxes)
        fire1 == /\ person_count > 1
                 /\ (current_time - self.last_alert_time)
                      > Secs(YOLODetector_alert_cooldown)
        last1 == IF fire1 THEN current_time ELSE self.last_alert_time
        msg1 == IF fire1 THEN Msg("MULTIPLE_PEOPLE", person_count, {})
                ELSE NoAlert
        fire2 == /\ suspicious_detections # <<>>
                 /\ (current_time - last1) > Secs(YOLODetector_alert_cooldown)
    IN [self |-> [self EXCEPT !.last_alert_time =
                     IF fire2 THEN current_time ELSE last1],
        alert |-> IF fire2
                  THEN Msg("SUSPICIOUS_OBJECTS", 0,
                           ObjectSet(suspicious_detections))
                  ELSE msg1]

(* ----------------------------- GazeTracker ----------------------------- *)
GazeTrackerInit == [looking_away_start_time |-> None, last_alert_time |-> 0]

Abs(x) == IF x < 0 THEN 0 - x ELSE x

(* calculate_head_pose returning what the solver left even when it failed *)
calculate_head_pose_unchecked(frame) ==
  <<frame.pitch, frame.yaw, frame.roll>>

(* calculate_head_pose: the solved angles, or [0, 0, 0] when solvePnP fails *)
calculate_head_pose(frame) ==
  IF frame.solved THEN <<frame.pitch, frame.yaw, frame.roll>>
  ELSE <<0, 0, 0>>

(* calculate_gaze_direction: the two eye aspect ratios, in hundredths *)
calculate_gaze_direction(frame) ==
  [left_ear |-> frame.left_ear, right_ear |-> frame.right_ear]

(* is_looking_away with the closed-eyes test ahead of the head pose *)
is_looking_away_blinkfirst(head_pose_angles, gaze_direction) ==
  LET pitch == head_pose_angles[1]
      yaw == head_pose_angles[2]
  IN IF gaze_direction.left_ear < BlinkEar
        /\ gaze_direction.right_ear < BlinkEar
     THEN FALSE
     ELSE Abs(pitch) > head_pose_threshold \/ Abs(yaw) > head_pose_threshold

is_looking_away(head_pose_angles, gaze_direction) ==
  LET pitch == head_pose_angles[1]
      yaw == head_pose_angles[2]
  IN IF Abs(pitch) > head_pose_threshold \/ Abs(yaw) > head_pose_threshold
     THEN TRUE
     ELSE IF gaze_direction.left_ear < BlinkEar
             /\ gaze_direction.right_ear < BlinkEar
     THEN FALSE
     ELSE FALSE

(* track_gaze alerting once the threshold is reached, not passed *)
track_gaze_atleast(self, current_time, frame) ==
  IF ~frame.landmarks THEN [self |-> self, alert |-> NoAlert]
  ELSE
    LET away == is_looking_away(calculate_head_pose(frame),
                                calculate_gaze_direction(frame))
        fire == /\ away
                /\ self.looking_away_start_time # None
                /\ (current_time - Val(self.looking_away_start_time))
                     >= Secs(GazeTracker_alert_threshold)
                /\ (current_time - self.last_alert_time)
                     > Secs(GazeTracker_alert_cooldown)
    IN IF away
       THEN [self |-> [self EXCEPT
                         !.looking_away_start_time =
                            IF @ = None THEN Some(current_time) ELSE @,
                         !.last_alert_time =
                            IF fire THEN current_time ELSE @],
             alert |-> IF fire THEN Msg("LOOKING_AWAY", 0, {}) ELSE NoAlert]
       ELSE [self |-> [self EXCEPT !.looking_away_start_time = None],
             alert |-> NoAlert]

track_gaze(self, current_time, frame) ==
  IF ~frame.landmarks THEN [self |-> self, alert |-> NoAlert]
  ELSE
    LET away == is_looking_away(calculate_head_pose(frame),
                                calculate_gaze_direction(frame))
        fire == /\ away
                /\ self.looking_away_start_time # None
                /\ (current_time - Val(self.looking_away_start_time))
                     > Secs(GazeTracker_alert_threshold)
                /\ (current_time - self.last_alert_time)
                     > Secs(GazeTracker_alert_cooldown)
    IN IF away
       THEN [self |-> [self EXCEPT
                         !.looking_away_start_time =
                            IF @ = None THEN Some(current_time) ELSE @,
                         !.last_alert_time =
                            IF fire THEN current_time ELSE @],
             alert |-> IF fire THEN Msg("LOOKING_AWAY", 0, {}) ELSE NoAlert]
       ELSE [self |-> [self EXCEPT !.looking_away_start_time = None],
             alert |-> NoAlert]

(* -------------------------- AudioSurveillance -------------------------- *)
AudioSurveillanceInit ==
  [is_monitoring |-> FALSE, student_id |-> "", last_alert_time |-> 0]

suspicious_keywords ==
  << "help", "answer", "tell me", "what is", "how to", "search", "google",
     "phone", "call", "text", "message", "whatsapp", "telegram",
     "copy", "paste", "share", "send", "email", "screenshot",
     "exam", "test", "question", "solution", "cheat", "cheating" >>

(* str.lower() left out: the words keep their letter case *)
Lower_keepcase(w) == w

(* str.lower() on the words the transcripts are made of *)
Lower(w) ==
  CASE w = "ANSWER" -> "answer"
    [] w = "Cheating" -> "cheating"
    [] w = "Tell" -> "tell"
    [] OTHER -> w

(* the one-word keywords that occur inside a lower-case word *)
KeywordsInside(w) ==
  CASE w = "answer" -> {"answer"}
    [] w = "cheating" -> {"cheat", "cheating"}
    [] w = "contest" -> {"test"}
    [] OTHER -> {}

(* the two-word keywords that occur across two adjacent lower-case words *)
KeywordsAcross(w1, w2) ==
  IF w1 = "tell" /\ w2 = "me" THEN {"tell me"} ELSE {}

(* the keywords k with  k in transcription.lower() *)
DetectedKeywords(transcription) ==
  LET text_lower == [i \in 1..Len(transcription) |-> Lower(transcription[i])]
      found ==
        UNION {KeywordsInside(text_lower[i]) : i \in 1..Len(text_lower)}
        \cup UNION {KeywordsAcross(text_lower[i], text_lower[i + 1]) :
                      i \in 1..(Len(text_lower) - 1)}
  IN {k \in found :
        \E j \in 1..Len(suspicious_keywords) : suspicious_keywords[j] = k}

(* _check_suspicious_content with no cooldown on continuous speech *)
check_suspicious_content_ungated(self, t1, t2, transcription) ==
  LET detected_keywords == DetectedKeywords(transcription)
      fire1 == /\ detected_keywords # {}
               /\ (t1 - self.last_alert_time)
                    > Secs(AudioSurveillance_alert_cooldown)
      fire2 == /\ ~fire1
               /\ Len(transcription) > ContinuousSpeechWords
  IN [self |-> [self EXCEPT !.last_alert_time =
                   IF fire1 THEN t1 ELSE IF fire2 THEN t2 ELSE @],
      alert |-> IF fire1 THEN Msg("SUSPICIOUS_SPEECH", 0, detected_keywords)
                ELSE IF fire2 THEN Msg("CONTINUOUS_SPEECH", 0, {})
                ELSE NoAlert]

(* _check_suspicious_content; a transcription is the sequence of its     *)
(* whitespace-separated words, t1 and t2 are the two time.time() reads   *)
check_suspicious_content(self, t1, t2, transcription) ==
  LET detected_keywords == DetectedKeywords(transcription)
      fire1 == /\ detected_keywords # {}
               /\ (t1 - self.last_alert_time)
                    > Secs(AudioSurveillance_alert_cooldown)
      fire2 == /\ ~fire1
               /\ Len(transcription) > ContinuousSpeechWords
               /\ (t2 - self.last_alert_time)
                    > Secs(AudioSurveillance_alert_cooldown)
  IN [self |-> [self EXCEPT !.last_alert_time =
                   IF fire1 THEN t1 ELSE IF fire2 THEN t2 ELSE @],
      alert |-> IF fire1 THEN Msg("SUSPICIOUS_SPEECH", 0, detected_keywords)
                ELSE IF fire2 THEN Msg("CONTINUOUS_SPEECH", 0, {})
                ELSE NoAlert]

(* the value an int16 element holds after an operation whose result is n *)
Int16(n) == ((n + 32768) % 65536) - 32768

RECURSIVE SumSeq(_)
SumSeq(q) == IF q = <<>> THEN 0 ELSE Head(q) + SumSeq(Tail(q))

(* _contains_speech passing every window *)
contains_speech_always(audio_data) == TRUE

(* _contains_speech: audio_data is an int16 array, so audio_data**2 is   *)
(* one too; rms = sqrt(mean(...)) is above the threshold exactly when    *)
(* the mean is above its square (nan, for an empty array or a negative   *)
(* mean, compares False)                                                  *)
contains_speech(audio_data) ==
  LET squares == [i \in 1..Len(audio_data) |->
                    Int16(audio_data[i] * audio_data[i])]
  IN /\ audio_data # <<>>
     /\ SumSeq(squares)
          > silence_threshold * silence_threshold * Len(audio_data)

(* a text: its whitespace-separated words, and whether it has leading   *)
(* or trailing whitespace; "" is EmptyText                                *)
Text(pad, words) == [pad |-> pad, words |-> words]
EmptyText == Text(FALSE, <<>>)
Strip(text) == Text(FALSE, text.words)

(* what the speech-to-text provider does with a window: whisper is       *)
(* self.use_whisper, raises is the provider throwing, text its result    *)
Provider(whisper, raises, text) ==
  [whisper |-> whisper, raises |-> raises, text |-> text]

transcribe_with_whisper(p) == IF p.raises THEN EmptyText ELSE Strip(p.text)

transcribe_with_sr(p) == IF p.raises THEN EmptyText ELSE p.text

(* _transcribe_audio returning the text heard although the provider     *)
(* failed                                                                 *)
transcribe_audio_unguarded(p) ==
  IF p.whisper THEN Strip(p.text) ELSE p.text

(* _transcribe_audio *)
transcribe_audio(p) ==
  IF p.whisper THEN transcribe_with_whisper(p) ELSE transcribe_with_sr(p)

(* _monitor_audio from the call of _transcribe_audio to the call of      *)
(* _log_audio_alert                                                       *)
transcribe_window(self, t1, t2, p) ==
  LET transcription == transcribe_audio(p)
  IN IF transcription # EmptyText /\ Strip(transcription).words # <<>>
     THEN check_suspicious_content(self, t1, t2, transcription.words)
          @@ [transcribed |-> TRUE]
     ELSE [self |-> self, alert |-> NoAlert, transcribed |-> TRUE]

(* ------------------------- evaluator inputs ---------------------------- *)
FaceCounts == 0..MaxFaces

(* the class names of the boxes of a frame, in detection order *)
BoxLists ==
  { <<>>,
    <<"person">>,
    <<"cell phone">>,
    <<"cup", "person">>,
    <<"person", "book">>,
    <<"person", "person">>,
    <<"book", "laptop", "book">>,
    <<"person", "cell phone", "person">> }

GazeFrame(l, s, p, y, r, le, re) ==
  [landmarks |-> l, solved |-> s, pitch |-> p, yaw |-> y, roll |-> r,
   left_ear |-> le, right_ear |-> re]
NoLandmarks == GazeFrame(FALSE, FALSE, 0, 0, 0, 30, 30)
GazeFrames ==
  { NoLandmarks,
    GazeFrame(TRUE, TRUE, 0, 0, 0, 30, 30),
    GazeFrame(TRUE, TRUE, 0, 0, 0, 10, 10),
    GazeFrame(TRUE, TRUE, 5, 35, 0, 30, 30),
    GazeFrame(TRUE, TRUE, 5, 35, 0, 10, 10),
    GazeFrame(TRUE, TRUE, 5, 30, 40, 10, 30),
    GazeFrame(TRUE, TRUE, 0 - 31, 0, 0, 30, 30),
    GazeFrame(TRUE, FALSE, 5, 35, 0, 30, 30),
    GazeFrame(TRUE, TRUE, 5, 35, 40, 30, 30) }

Um(n) == [i \in 1..n |-> "um"]
Transcripts ==
  { <<"can", "you", "Tell", "me", "the", "ANSWER">>,
    Um(ContinuousSpeechWords + ExtraWords),
    Um(ContinuousSpeechWords),
    Um(ContinuousSpeechWords + 1),
    <<"Cheating">> \o Um(ContinuousSpeechWords),
    <<"contest">>,
    <<"um">> }

(* Scenario 1: the face counts, sampled once per second *)
Scenario1 == <<1, 1, 0, 0, 0, 0, 0, 0, 1>>

(* Scenario 4: yaw 35 and pitch 5 held for 4 seconds, sampled every half *)
(* second, with both eye aspect ratios under 0.2 in the frame at 1.5 s    *)
Scenario4Away == GazeFrame(TRUE, TRUE, 5, 35, 0, 30, 30)
Scenario4Blink == GazeFrame(TRUE, TRUE, 5, 35, 0, 10, 10)
Scenario4 ==
  [i \in 1..(Secs(4) + 1) |->
     IF i = Secs(1) + 1 + 1 THEN Scenario4Blink ELSE Scenario4Away]

(* ----------------------------- histories ------------------------------- *)
(* t1 is the first time.time() read of the call, t the last one *)
NoCall ==
  [ev |-> "none", t1 |-> 0, t |-> 0, inp |-> <<>>, alert |-> NoAlert,
   pre |-> 0]
NoRun == [kind |-> "nominal", since |-> None, vsince |-> None, n |-> 0]
Derailed == [i |-> 0 - 1, t0 |-> 0]

(* the run of violating observations after an observation of the given  *)
(* kind at time t that returned alert: since is the first observation   *)
(* of the current run of this kind, vsince the first violating           *)
(* observation after the last nominal one, n the alerts of the current   *)
(* run                                                                    *)
NextRun(kind, t, alert) ==
  IF kind = "nominal" THEN NoRun
  ELSE [kind |-> kind,
        since |-> IF run.kind = kind THEN run.since ELSE Some(t),
        vsince |-> IF run.kind # "nominal" THEN run.vsince ELSE Some(t),
        n |-> (IF run.kind = kind THEN run.n ELSE 0)
              + (IF alert # NoAlert THEN 1 ELSE 0)]

NextEmitted(t, alert) ==
  IF alert = NoAlert THEN emitted
  ELSE Append(emitted, [t |-> t, kind |-> alert.kind])

(* progress through Scenario1 after observing face_count at time t *)
NextScen(t, face_count) ==
  IF /\ scen.i >= 0
     /\ scen.i < Len(Scenario1)
     /\ face_count = Scenario1[scen.i + 1]
     /\ (scen.i = 0 \/ t = scen.t0 + Secs(scen.i))
  THEN [i |-> scen.i + 1, t0 |-> IF scen.i = 0 THEN t ELSE scen.t0]
  ELSE Derailed

(* progress through Scenario4, kept in the field k of scen *)
Scen4Progress ==
  IF scen.i = 0 THEN 0
  ELSE IF "k" \in DOMAIN scen THEN scen.k ELSE 0 - 1

NextScen4(t, frame) ==
  LET k == Scen4Progress
  IN IF /\ k >= 0
        /\ k < Len(Scenario4)
        /\ frame = Scenario4[k + 1]
        /\ (k = 0 \/ t = scen.t0 + k)
     THEN [i |-> 0 - 1, t0 |-> IF k = 0 THEN t ELSE scen.t0, k |-> k + 1]
     ELSE Derailed

(* ------------------------------ actions -------------------------------- *)
Clients == {"s1", "s2"}
Idle == [pc |-> "idle"]

(* app.py before any request: the module globals *)
AppIdle ==
  /\ camera = FALSE
  /\ alert_count = 0
  /\ alerts = <<>>
  /\ session = [c \in Clients |-> None]
  /\ streams = [c \in Clients |-> Idle]
  /\ since = 0
  /\ incs = 0

EvalInit ==
  /\ now = Epoch
  /\ sel \in {"face", "yolo", "gaze", "audio"}
  /\ face_tracker = FaceTrackerInit
  /\ yolo_detector = YOLODetectorInit
  /\ gaze_tracker = GazeTrackerInit
  /\ monitors = <<AudioSurveillanceInit>>
  /\ audio_surveillance = 1
  /\ AppIdle
  /\ lastCall = NoCall
  /\ emitted = <<>>
  /\ run = NoRun
  /\ scen = [i |-> 0, t0 |-> 0]

(* time.time() advances *)
Tick ==
  /\ now < MaxTime(sel)
  /\ now' = now + 1
  /\ UNCHANGED <<sel, evalVars, appVars, histVars>>

FaceKind(face_count) ==
  IF face_count = 0 THEN "absent"
  ELSE IF face_count = 1 THEN "nominal" ELSE "multi"

DetectFaces(face_count) ==
  /\ sel \in {"face", "faces"}
  /\ LET r == detect_faces(face_tracker, now, face_count)
     IN /\ face_tracker' = r.self
        /\ lastCall' = [ev |-> "face", t1 |-> now, t |-> now, inp |-> face_count,
                        alert |-> r.alert, pre |-> face_tracker.last_alert_time]
        /\ emitted' = NextEmitted(now, r.alert)
        /\ run' = NextRun(FaceKind(face_count), now, r.alert)
        /\ scen' = NextScen(now, face_count)
  /\ UNCHANGED <<now, sel, yolo_detector, gaze_tracker, audio_surveillance,
                 monitors, appVars>>

ResetTimers ==
  /\ sel \in {"face", "faces"}
  /\ face_tracker' = reset_timers(face_tracker)
  /\ lastCall' = NoCall
  /\ emitted' = <<>>
  /\ run' = NoRun
  /\ scen' = Derailed
  /\ UNCHANGED <<now, sel, yolo_detector, gaze_tracker, audio_surveillance,
                 monitors, appVars>>

DetectObjects(boxes, raises) ==
  /\ sel = "yolo"
  /\ LET r == detect_objects(yolo_detector, now, boxes, raises)
     IN /\ yolo_detector' = r.self
        /\ lastCall' = [ev |-> "yolo", t1 |-> now, t |-> now,
                        inp |-> [boxes |-> boxes, raises |-> raises],
                        alert |-> r.alert,
                        pre |-> yolo_detector.last_alert_time]
        /\ emitted' = NextEmitted(now, r.alert)
  /\ UNCHANGED <<now, sel, face_tracker, gaze_tracker, audio_surveillance,
                 monitors, appVars, run, scen>>

GazeKind(frame) ==
  IF ~frame.landmarks THEN "skip"
  ELSE IF is_looking_away(calculate_head_pose(frame),
                          calculate_gaze_direction(frame))
  THEN "away" ELSE "nominal"

(* the first of the looking-away observations that led up to the latest *)
(* gaze call with no other frame between them, None if that call was    *)
(* not a looking-away observation                                        *)
NextObservedSince(t, frame) ==
  IF GazeKind(frame) # "away" THEN None
  ELSE IF lastCall.ev = "gaze" /\ lastCall.osince # None THEN lastCall.osince
  ELSE Some(t)

TrackGaze(frame) ==
  /\ sel = "gaze"
  /\ LET r == track_gaze(gaze_tracker, now, frame)
     IN /\ gaze_tracker' = r.self
        /\ lastCall' = [ev |-> "gaze", t1 |-> now, t |-> now, inp |-> frame,
                        alert |-> r.alert,
                        pre |-> gaze_tracker.last_alert_time,
                        start |-> gaze_tracker.looking_away_start_time,
                        osince |-> NextObservedSince(now, frame)]
        /\ emitted' = NextEmitted(now, r.alert)
        /\ run' = IF GazeKind(frame) = "skip" THEN run
                  ELSE NextRun(GazeKind(frame), now, r.alert)
        /\ scen' = NextScen4(now, frame)
  /\ UNCHANGED <<now, sel, face_tracker, yolo_detector, audio_surveillance,
                 monitors, appVars>>

(* d is the time that passes between the two time.time() reads *)
CheckSuspiciousContent(transcription, d) ==
  /\ sel = "audio"
  /\ now + d <= MaxTime(sel)
  /\ LET self == monitors[audio_surveillance]
         r == check_suspicious_content(self, now, now + d, transcription)
     IN /\ monitors' = [monitors EXCEPT ![audio_surveillance] = r.self]
        /\ lastCall' = [ev |-> "audio", t1 |-> now, t |-> now + d,
                        inp |-> transcription,
                        alert |-> r.alert, pre |-> self.last_alert_time]
        /\ emitted' = NextEmitted(r.self.last_alert_time, r.alert)
  /\ now' = now + d
  /\ UNCHANGED <<sel, face_tracker, yolo_detector, gaze_tracker,
                 audio_surveillance, appVars, run, scen>>

EvalNext ==
  \/ Tick
  \/ \E face_count \in FaceCounts : DetectFaces(face_count)
  \/ ResetTimers
  \/ \E boxes \in BoxLists : DetectObjects(boxes, FALSE)
  \/ DetectObjects(<<>>, TRUE)
  \/ \E frame \in GazeFrames : TrackGaze(frame)
  \/ \E transcription \in Transcripts, d \in 0..1 :
       CheckSuspiciousContent(transcription, d)

SpecEval == EvalInit /\ [][EvalNext]_vars

(* the FaceTracker alone, long enough for an alert of each condition *)
FaceInit ==
  /\ now = Epoch
  /\ sel = "faces"
  /\ face_tracker = FaceTrackerInit
  /\ yolo_detector = YOLODetectorInit
  /\ gaze_tracker = GazeTrackerInit
  /\ monitors = <<AudioSurveillanceInit>>
  /\ audio_surveillance = 1
  /\ AppIdle
  /\ lastCall = NoCall
  /\ emitted = <<>>
  /\ run = NoRun
  /\ scen = Derailed

FaceNext ==
  \/ Tick
  \/ \E face_count \in 0..2 : DetectFaces(face_count)
  \/ ResetTimers

SpecFace == FaceInit /\ [][FaceNext]_vars

(* ------------------------------- app.py -------------------------------- *)
(* Time passes between requests and frames in steps of AppStep, long     *)
(* enough for a duration threshold to be crossed between two frames.      *)
AppStep == Secs(FaceTracker_alert_threshold) + 1

(* what the camera and the detectors see in one frame *)
AppFrame(faces, boxes, gaze) == [faces |-> faces, boxes |-> boxes, gaze |-> gaze]
AppFrames ==
  { AppFrame(1, <<"person">>, GazeFrame(TRUE, TRUE, 0, 0, 0, 30, 30)),
    AppFrame(1, <<"cell phone">>, GazeFrame(TRUE, TRUE, 0, 0, 0, 30, 30)),
    AppFrame(0, <<>>, NoLandmarks) }

(* the samples of a window: amp and -amp in turn *)
Samples(amp) ==
  [i \in 1..WindowSamples |-> IF i % 2 = 1 THEN amp ELSE 0 - amp]

Whispered(words) == Provider(TRUE, FALSE, Text(FALSE, words))

(* one window of the audio loop: whether _record_chunk returned data,   *)
(* the int16 samples it returned, and what the provider does with them   *)
AudioWindow(recorded, samples, provider) ==
  [recorded |-> recorded, samples |-> samples, provider |-> provider]
AudioWindows ==
  { AudioWindow(FALSE, <<>>, Whispered(<<>>)),
    AudioWindow(TRUE, Samples(0), Whispered(<<>>)),
    AudioWindow(TRUE, Samples(silence_threshold),
                Whispered(<<"can", "you", "Tell", "me", "the", "ANSWER">>)),
    AudioWindow(TRUE, Samples(silence_threshold + 1),
                Whispered(<<"can", "you", "Tell", "me", "the", "ANSWER">>)),
    AudioWindow(TRUE, Samples(20000),
                Whispered(Um(ContinuousSpeechWords + 1))) }

AlertRow(student_id, alert_type, message, screenshot_path) ==
  [student_id |-> student_id, alert_type |-> alert_type,
   message |-> message, screenshot_path |-> screenshot_path]

(* session.get('student_id', 'unknown') *)
SessionStudent(c) == IF session[c] = None THEN "unknown" ELSE Val(session[c])

AppStart(component) ==
  /\ now = Epoch
  /\ sel = component
  /\ face_tracker = FaceTrackerInit
  /\ yolo_detector = YOLODetectorInit
  /\ gaze_tracker = GazeTrackerInit
  /\ monitors = <<>>
  /\ audio_surveillance = 0
  /\ AppIdle
  /\ lastCall = NoCall
  /\ emitted = <<>>
  /\ run = NoRun
  /\ scen = Derailed

AppTick ==
  /\ now + AppStep <= Epoch + AppTicks * AppStep
  /\ now' = now + AppStep
  /\ UNCHANGED <<sel, evalVars, appVars, histVars>>

(* POST /login with both fields filled in *)
Login(c) ==
  /\ session[c] = None
  /\ session' = [session EXCEPT ![c] = Some(c)]
  /\ UNCHANGED <<now, sel, evalVars, camera, alert_count, alerts, streams,
                 since, incs, histVars>>

(* GET /exam when camera is None: the detectors are created and the      *)
(* audio thread calls start_monitoring on the new AudioSurveillance      *)
StartExam(c) ==
  /\ session[c] # None
  /\ ~camera
  /\ camera' = TRUE
  /\ face_tracker' = FaceTrackerInit
  /\ yolo_detector' = YOLODetectorInit
  /\ gaze_tracker' = GazeTrackerInit
  /\ monitors' = Append(monitors,
                        [AudioSurveillanceInit EXCEPT
                           !.is_monitoring = TRUE,
                           !.student_id = Val(session[c])])
  /\ audio_surveillance' = Len(monitors) + 1
  /\ UNCHANGED <<now, sel, alert_count, alerts, session, streams, since, incs,
                 histVars>>

Exam(c) ==
  /\ Len(monitors) < MaxMonitors
  /\ StartExam(c)

(* GET /video_feed: the response starts to iterate generate_frames *)
VideoFeed(c) ==
  /\ session[c] # None
  /\ streams[c] = Idle
  /\ streams' = [streams EXCEPT ![c] = [pc |-> "loop"]]
  /\ UNCHANGED <<now, sel, evalVars, camera, alert_count, alerts, session,
                 since, incs, histVars>>

(* what the latest step of a generate_frames generator did, kept for    *)
(* the behaviours of the whole application                                *)
GeneratorCall(c, ended) ==
  IF sel = "app"
  THEN [ev |-> "generate_frames", t1 |-> now, t |-> now, inp |-> c,
        alert |-> NoAlert, pre |-> 0, torn |-> ~camera, ended |-> ended]
  ELSE lastCall

(* generate_frames: the top of a turn of the loop, `if camera is None:   *)
(* break`                                                                 *)
GenerateFramesTest(c) ==
  /\ streams[c].pc = "loop"
  /\ Len(alerts) < MaxAlerts
  /\ streams' = [streams EXCEPT ![c] =
                   IF camera THEN [pc |-> "call"] ELSE Idle]
  /\ lastCall' = GeneratorCall(c, IF camera THEN "running" ELSE "returned")
  /\ UNCHANGED <<now, sel, evalVars, camera, alert_count, alerts, session,
                 since, incs, emitted, run, scen>>

(* generate_frames: camera.get_encoded_frame() up to get_frame.  The     *)
(* global is read again: on None the attribute lookup raises and the     *)
(* exception ends the generator.  got is whether video.read() succeeded; *)
(* when it did not the frame is None and the loop breaks.                 *)
GenerateFrames(c, got, frame) ==
  /\ streams[c].pc = "call"
  /\ streams' = [streams EXCEPT ![c] =
                   IF camera /\ got THEN [pc |-> "face", frame |-> frame]
                   ELSE Idle]
  /\ lastCall' = GeneratorCall(c, IF ~camera THEN "raised"
                                  ELSE IF got THEN "running" ELSE "returned")
  /\ UNCHANGED <<now, sel, evalVars, camera, alert_count, alerts, session,
                 since, incs, emitted, run, scen>>

(* the stream after an evaluator returned alert: into log_alert, or on   *)
(* to the next evaluator                                                  *)
AfterEvaluator(st, alert_type, alert, next) ==
  IF alert # NoAlert
  THEN [pc |-> "log_alert", frame |-> st.frame, alert_type |-> alert_type,
        message |-> alert, next |-> next]
  ELSE IF next = "loop" THEN [pc |-> "loop"]
  ELSE [pc |-> next, frame |-> st.frame]

(* what the latest evaluator call of process_detections did, kept for   *)
(* the behaviours of the whole application: whether the detector raised, *)
(* whether the evaluator's attributes were left as they were, and        *)
(* whether the frame went on to the rest of process_detections           *)
PerceptionCall(evaluator, raises, alert, kept, st) ==
  IF sel \in {"app", "frame"}
  THEN [ev |-> "perception", t1 |-> now, t |-> now,
        inp |-> [evaluator |-> evaluator, raises |-> raises],
        alert |-> alert, pre |-> 0, kept |-> kept,
        continued |-> st.pc # "idle"]
  ELSE lastCall

(* face detection with one cooldown shared with the object detector *)
ProcessFace_sharedcooldown(c, raises) ==
  /\ streams[c].pc = "face"
  /\ LET r == IF raises THEN [self |-> face_tracker, alert |-> NoAlert]
              ELSE detect_faces(face_tracker, now, streams[c].frame.faces)
         st == IF raises THEN Idle
               ELSE AfterEvaluator(streams[c], "FACE_DETECTION", r.alert,
                                   "yolo")
     IN /\ face_tracker' = r.self
        /\ yolo_detector' = IF r.alert # NoAlert
                            THEN [yolo_detector EXCEPT !.last_alert_time = now]
                            ELSE yolo_detector
        /\ streams' = [streams EXCEPT ![c] = st]
        /\ lastCall' = PerceptionCall("face", raises, r.alert,
                                      r.self = face_tracker, st)
  /\ UNCHANGED <<now, sel, gaze_tracker, audio_surveillance,
                 monitors, camera, alert_count, alerts, session, since, incs,
                 emitted, run, scen>>

(* process_detections: face detection.  raises is cv2.cvtColor or the    *)
(* MediaPipe detector throwing: detect_faces has no handler and neither  *)
(* has any caller, so the exception ends the generator.                   *)
ProcessFace(c, raises) ==
  /\ streams[c].pc = "face"
  /\ LET r == IF raises THEN [self |-> face_tracker, alert |-> NoAlert]
              ELSE detect_faces(face_tracker, now, streams[c].frame.faces)
         st == IF raises THEN Idle
               ELSE AfterEvaluator(streams[c], "FACE_DETECTION", r.alert,
                                   "yolo")
     IN /\ face_tracker' = r.self
        /\ streams' = [streams EXCEPT ![c] = st]
        /\ lastCall' = PerceptionCall("face", raises, r.alert,
                                      r.self = face_tracker, st)
  /\ UNCHANGED <<now, sel, yolo_detector, gaze_tracker, audio_surveillance,
                 monitors, camera, alert_count, alerts, session, since, incs,
                 emitted, run, scen>>

(* process_detections: object detection.  raises is the model call      *)
(* throwing inside the try block of detect_objects.                       *)
ProcessObjects(c, raises) ==
  /\ streams[c].pc = "yolo"
  /\ LET r == detect_objects(yolo_detector, now, streams[c].frame.boxes,
                             raises)
         st == AfterEvaluator(streams[c], "OBJECT_DETECTION", r.alert, "gaze")
     IN /\ yolo_detector' = r.self
        /\ streams' = [streams EXCEPT ![c] = st]
        /\ lastCall' = PerceptionCall("yolo", raises, r.alert,
                                      r.self = yolo_detector, st)
  /\ UNCHANGED <<now, sel, face_tracker, gaze_tracker, audio_surveillance,
                 monitors, camera, alert_count, alerts, session, since, incs,
                 emitted, run, scen>>

(* process_detections: gaze tracking, then the frame is yielded.  raises *)
(* is cv2.cvtColor or the face mesh throwing, unhandled as in            *)
(* detect_faces.                                                          *)
ProcessGaze(c, raises) ==
  /\ streams[c].pc = "gaze"
  /\ LET r == IF raises THEN [self |-> gaze_tracker, alert |-> NoAlert]
              ELSE track_gaze(gaze_tracker, now, streams[c].frame.gaze)
         st == IF raises THEN Idle
               ELSE AfterEvaluator(streams[c], "GAZE_TRACKING", r.alert,
                                   "loop")
     IN /\ gaze_tracker' = r.self
        /\ streams' = [streams EXCEPT ![c] = st]
        /\ lastCall' = PerceptionCall("gaze", raises, r.alert,
                                      r.self = gaze_tracker, st)
  /\ UNCHANGED <<now, sel, face_tracker, yolo_detector, audio_surveillance,
                 monitors, camera, alert_count, alerts, session, since, incs,
                 emitted, run, scen>>

(* log_alert, alert_count += 1: the read of the global *)
LogAlertLoad(c) ==
  /\ streams[c].pc = "log_alert"
  /\ streams' = [streams EXCEPT ![c] =
                   [@ EXCEPT !.pc = "log_store"] @@ [tmp |-> alert_count]]
  /\ UNCHANGED <<now, sel, evalVars, camera, alert_count, alerts, session,
                 since, incs, histVars>>

(* log_alert, alert_count += 1: the write of the global *)
LogAlertStore(c) ==
  /\ streams[c].pc = "log_store"
  /\ alert_count' = streams[c].tmp + 1
  /\ incs' = incs + 1
  /\ streams' = [streams EXCEPT ![c] =
                   [pc |-> "log_insert", frame |-> @.frame,
                    alert_type |-> @.alert_type, message |-> @.message,
                    next |-> @.next]]
  /\ UNCHANGED <<now, sel, evalVars, camera, alerts, session, since, histVars>>

(* log_alert from the screenshot on: cv2.imwrite to the path named      *)
(* after alert_count, then the INSERT of the row with that path.         *)
(* imwrite is what cv2.imwrite does: "written" (returns True), "failed"  *)
(* (returns False, no file) or "raises"; raises is sqlite3 or the        *)
(* session lookup throwing.  Nothing in log_alert, process_detections or *)
(* generate_frames catches an exception, so one ends the generator.      *)
LogAlertInsert(c, imwrite, raises) ==
  /\ streams[c].pc = "log_insert"
  /\ LET aborted == imwrite = "raises" \/ raises
         row == AlertRow(SessionStudent(c), streams[c].alert_type,
                         streams[c].message.kind, Some(alert_count))
     IN /\ alerts' = IF aborted THEN alerts ELSE Append(alerts, row)
        /\ streams' = [streams EXCEPT ![c] =
              IF aborted THEN Idle
              ELSE IF @.next = "loop" THEN [pc |-> "loop"]
              ELSE [pc |-> @.next, frame |-> @.frame]]
        /\ lastCall' = IF sel = "app"
                       THEN [ev |-> "log_alert", t1 |-> now, t |-> now,
                             inp |-> [imwrite |-> imwrite, raises |-> raises],
                             alert |-> streams[c].message, pre |-> 0,
                             aborted |-> aborted,
                             row |-> IF aborted THEN None ELSE Some(row)]
                       ELSE lastCall
  /\ UNCHANGED <<now, sel, evalVars, camera, alert_count, session, since, incs,
                 emitted, run, scen>>

(* GET /logout *)
Logout(c) ==
  /\ session[c] # None \/ camera \/ alert_count # 0
  /\ camera' = FALSE
  /\ alert_count' = 0
  /\ session' = [session EXCEPT ![c] = None]
  /\ since' = Len(alerts)
  /\ incs' = 0
  /\ UNCHANGED <<now, sel, evalVars, alerts, streams, histVars>>

(* _monitor_audio: what one turn of the loop does with its window *)
monitor_window(self, t1, t2, window) ==
  IF window.recorded /\ contains_speech(window.samples)
  THEN transcribe_window(self, t1, t2, window.provider)
  ELSE [self |-> self, alert |-> NoAlert, transcribed |-> FALSE]

(* _log_audio_alert: the row it INSERTs; logged is whether the INSERT   *)
(* went through (an exception is caught and printed)                     *)
log_audio_alert(self, alert, logged) ==
  IF alert # NoAlert /\ logged
  THEN Append(alerts,
              AlertRow(self.student_id, "AUDIO_DETECTION", alert.kind, None))
  ELSE alerts

(* the end of one turn of the loop of instance m, r being what the turn  *)
(* computed from its input inp                                            *)
AudioTurn(m, ev, inp, r, logged) ==
  /\ monitors' = [monitors EXCEPT ![m] = r.self]
  /\ alerts' = log_audio_alert(monitors[m], r.alert, logged)
  /\ lastCall' = IF sel = "loop"
                 THEN [ev |-> ev, t1 |-> now, t |-> now, inp |-> inp,
                       alert |-> r.alert, pre |-> monitors[m].last_alert_time,
                       transcribed |-> r.transcribed, rows |-> Len(alerts)]
                 ELSE lastCall
  /\ UNCHANGED <<now, sel, face_tracker, yolo_detector, gaze_tracker,
                 audio_surveillance, camera, alert_count, session, streams,
                 since, incs, emitted, run, scen>>

(* _monitor_audio: one turn of the loop of instance m *)
MonitorAudio(m, window, logged) ==
  /\ m \in 1..Len(monitors)
  /\ monitors[m].is_monitoring
  /\ Len(alerts) < MaxAlerts
  /\ AudioTurn(m, "window", window,
               monitor_window(monitors[m], now, now, window), logged)

(* _monitor_audio: the turn of the loop from the call of                 *)
(* _transcribe_audio on, for a window that reached it                    *)
TranscribeWindow(m, p, logged) ==
  /\ sel \in {"loop", "frame"}
  /\ m \in 1..Len(monitors)
  /\ monitors[m].is_monitoring
  /\ Len(alerts) < MaxAlerts
  /\ AudioTurn(m, "transcribe", p,
               transcribe_window(monitors[m], now, now, p), logged)

ImwriteOutcomes == {"written", "failed", "raises"}

(* one client: the video path runs one frame at a time *)
AppClients == {"s1"}

AppNext ==
  \/ AppTick
  \/ \E c \in AppClients : Login(c)
  \/ \E c \in AppClients : Exam(c)
  \/ \E c \in AppClients : VideoFeed(c)
  \/ \E c \in AppClients : GenerateFramesTest(c)
  \/ \E c \in AppClients, got \in BOOLEAN, frame \in AppFrames :
       GenerateFrames(c, got, frame)
  \/ \E c \in AppClients, raises \in BOOLEAN : ProcessFace(c, raises)
  \/ \E c \in AppClients, raises \in BOOLEAN : ProcessObjects(c, raises)
  \/ \E c \in AppClients, raises \in BOOLEAN : ProcessGaze(c, raises)
  \/ \E c \in AppClients : LogAlertLoad(c)
  \/ \E c \in AppClients : LogAlertStore(c)
  \/ \E c \in AppClients, imwrite \in ImwriteOutcomes, raises \in BOOLEAN :
       LogAlertInsert(c, imwrite, raises)
  \/ \E c \in AppClients : Logout(c)
  \/ \E m \in 1..MaxMonitors, window \in AudioWindows, logged \in BOOLEAN :
       MonitorAudio(m, window, logged)

AppInit == AppStart("app")

SpecApp == AppInit /\ [][AppNext]_vars

(* the video path alone, with the streams of both clients open *)
RaceInit == AppStart("race")

(* the frames that raise an alert: with a cell phone, and with nobody *)
RaceFrames == { f \in AppFrames : f.faces = 0 \/ f.boxes = <<"cell phone">> }

RaceNext ==
  \/ AppTick
  \/ \E c \in Clients : Login(c)
  \/ \E c \in Clients : Exam(c)
  \/ \E c \in Clients : VideoFeed(c)
  \/ \E c \in Clients : GenerateFramesTest(c)
  \/ \E c \in Clients, got \in BOOLEAN, frame \in RaceFrames :
       GenerateFrames(c, got, frame)
  \/ \E c \in Clients, raises \in BOOLEAN : ProcessFace(c, raises)
  \/ \E c \in Clients, raises \in BOOLEAN : ProcessObjects(c, raises)
  \/ \E c \in Clients, raises \in BOOLEAN : ProcessGaze(c, raises)
  \/ \E c \in Clients : LogAlertLoad(c)
  \/ \E c \in Clients : LogAlertStore(c)
  \/ \E c \in Clients, imwrite \in ImwriteOutcomes, raises \in BOOLEAN :
       LogAlertInsert(c, imwrite, raises)
  \/ \E c \in Clients : Logout(c)

SpecRace == RaceInit /\ [][RaceNext]_vars

(* the audio loop alone, after start_monitoring("s1") *)
Providers ==
  { Whispered(<<"can", "you", "Tell", "me", "the", "ANSWER">>),
    Provider(TRUE, FALSE, Text(TRUE, <<"Cheating">>)),
    Provider(TRUE, FALSE, EmptyText),
    Provider(TRUE, FALSE, Text(TRUE, <<>>)),
    Provider(FALSE, FALSE, Text(TRUE, <<>>)),
    Provider(TRUE, TRUE,
             Text(FALSE, <<"can", "you", "Tell", "me", "the", "ANSWER">>)),
    Provider(FALSE, TRUE, Text(FALSE, Um(ContinuousSpeechWords + 1))),
    Provider(FALSE, FALSE, Text(FALSE, Um(ContinuousSpeechWords + 1))) }

(* start_monitoring(student_id) on a new instance *)
Monitoring(student_id) ==
  [AudioSurveillanceInit EXCEPT !.is_monitoring = TRUE,
                                !.student_id = student_id]

LoopInit ==
  /\ now = Epoch
  /\ sel = "loop"
  /\ face_tracker = FaceTrackerInit
  /\ yolo_detector = YOLODetectorInit
  /\ gaze_tracker = GazeTrackerInit
  /\ monitors = <<Monitoring("s1")>>
  /\ audio_surveillance = 1
  /\ AppIdle
  /\ lastCall = NoCall
  /\ emitted = <<>>
  /\ run = NoRun
  /\ scen = Derailed

LoopNext ==
  \/ Tick
  \/ \E window \in AudioWindows, logged \in BOOLEAN :
       MonitorAudio(1, window, logged)
  \/ \E p \in Providers, logged \in BOOLEAN : TranscribeWindow(1, p, logged)

SpecLoop == LoopInit /\ [][LoopNext]_vars

(* ---------------- start_monitoring, stop_monitoring -------------------- *)
(* One AudioSurveillance instance with the threads that run               *)
(* _monitor_audio on it, kept in the field loops in the order they were   *)
(* started.  Of each thread: pc, where it is (start: before the stream   *)
(* is open; test: at `while self.is_monitoring`; window: in the loop      *)
(* body; cleanup: at `finally`; exited), stream and audio, the state of   *)
(* its microphone stream and of its PyAudio handle, and left, why it      *)
(* left the while loop.                                                    *)
NewLoop == [pc |-> "start", stream |-> "none", audio |-> "none", left |-> ""]

(* start_monitoring(student_id) *)
StartMonitoring(m, student_id) ==
  /\ ~monitors[m].is_monitoring
  /\ Len(monitors[m].loops) < MaxLoops
  /\ monitors' = [monitors EXCEPT ![m] =
                    [@ EXCEPT !.is_monitoring = TRUE,
                              !.student_id = student_id,
                              !.loops = Append(@, NewLoop)]]
  /\ UNCHANGED <<now, sel, face_tracker, yolo_detector, gaze_tracker,
                 audio_surveillance, appVars, histVars>>

(* stop_monitoring: the flag is cleared; join(timeout=2) returns whether *)
(* or not the thread has ended                                            *)
StopMonitoring(m) ==
  /\ monitors[m].is_monitoring
  /\ monitors' = [monitors EXCEPT ![m] = [@ EXCEPT !.is_monitoring = FALSE]]
  /\ UNCHANGED <<now, sel, face_tracker, yolo_detector, gaze_tracker,
                 audio_surveillance, appVars, histVars>>

(* _monitor_audio up to the loop: pyaudio.PyAudio() and audio.open().    *)
(* When PyAudio() raises nothing was acquired; when open() raises,       *)
(* `finally` names the unbound stream, the NameError is swallowed and    *)
(* audio.terminate() is not reached.                                      *)
OpenOutcomes == {"opened", "pyaudio_raises", "open_raises"}

LoopOpen(m, i, outcome) ==
  /\ i \in 1..Len(monitors[m].loops)
  /\ monitors[m].loops[i].pc = "start"
  /\ monitors' = [monitors EXCEPT ![m].loops[i] =
       IF outcome = "opened"
       THEN [@ EXCEPT !.pc = "test", !.stream = "open", !.audio = "open"]
       ELSE [@ EXCEPT !.pc = "exited", !.left = outcome,
                      !.audio = IF outcome = "open_raises" THEN "open"
                                ELSE "none"]]
  /\ UNCHANGED <<now, sel, face_tracker, yolo_detector, gaze_tracker,
                 audio_surveillance, appVars, histVars>>

(* `while self.is_monitoring` *)
LoopTest(m, i) ==
  /\ i \in 1..Len(monitors[m].loops)
  /\ monitors[m].loops[i].pc = "test"
  /\ monitors' = [monitors EXCEPT ![m].loops[i] =
       IF monitors[m].is_monitoring THEN [@ EXCEPT !.pc = "window"]
       ELSE [@ EXCEPT !.pc = "cleanup", !.left = "stopped"]]
  /\ UNCHANGED <<now, sel, face_tracker, yolo_detector, gaze_tracker,
                 audio_surveillance, appVars, histVars>>

(* _record_chunk with no handler around the reads *)
record_chunk_unguarded(window) ==
  [raised |-> ~window.recorded,
   data |-> IF window.recorded THEN Some(window.samples) ELSE None]

(* _record_chunk: the samples, or None when reading the stream raised;   *)
(* raised is an exception leaving the function                            *)
record_chunk(window) ==
  [raised |-> FALSE,
   data |-> IF window.recorded THEN Some(window.samples) ELSE None]

(* the windows and the transcriptions the threads meet: a failed read, a *)
(* loud window; a transcript with keywords, a provider that raises, an   *)
(* empty transcript                                                        *)
MonitorWindows == { w \in AudioWindows : ~w.recorded \/ w.samples[1] > 1000 }
MonitorProviders ==
  { p \in Providers : p.whisper /\ ~p.text.pad }

(* the body of the while loop in thread i: r is what the turn computed   *)
(* from its input inp, raised an exception leaving the body, which the   *)
(* handler around the loop turns into the end of the loop                 *)
LoopTurn(m, i, ev, inp, raised, r, logged) ==
  /\ i \in 1..Len(monitors[m].loops)
  /\ monitors[m].loops[i].pc = "window"
  /\ Len(alerts) < MaxAlerts
  /\ LET went == IF raised THEN "cleanup" ELSE "test"
         self == IF raised THEN monitors[m] ELSE r.self
         alert == IF raised THEN NoAlert ELSE r.alert
     IN /\ monitors' = [monitors EXCEPT ![m] =
              [self EXCEPT !.loops[i] =
                 [@ EXCEPT !.pc = went,
                           !.left = IF raised THEN "raised" ELSE @]]]
        /\ alerts' = log_audio_alert(monitors[m], alert, logged)
        /\ lastCall' = [ev |-> ev, t1 |-> now, t |-> now, inp |-> inp,
                        alert |-> alert,
                        pre |-> monitors[m].last_alert_time,
                        thread |-> i, logged |-> logged, went |-> went]
  /\ UNCHANGED <<now, sel, face_tracker, yolo_detector, gaze_tracker,
                 audio_surveillance, camera, alert_count, session, streams,
                 since, incs, emitted, run, scen>>

(* one turn of the loop in thread i, from _record_chunk to time.sleep *)
LoopWindow(m, i, window, logged) ==
  /\ window \in MonitorWindows
  /\ LoopTurn(m, i, "window", window, record_chunk(window).raised,
              monitor_window(monitors[m], now, now, window), logged)

(* the same turn from the call of _transcribe_audio on, for a window     *)
(* that reached it                                                        *)
LoopTranscribe(m, i, p, logged) ==
  /\ p \in MonitorProviders
  /\ LoopTurn(m, i, "transcribe", p, FALSE,
              transcribe_window(monitors[m], now, now, p), logged)

(* `finally`: stream.stop_stream(), stream.close(), audio.terminate()    *)
(* in one try block whose handler passes: a call that raises skips the   *)
(* calls after it                                                         *)
CleanupOutcomes == {"released", "stop_stream_raises", "close_raises"}

LoopCleanup(m, i, outcome) ==
  /\ i \in 1..Len(monitors[m].loops)
  /\ monitors[m].loops[i].pc = "cleanup"
  /\ monitors' = [monitors EXCEPT ![m].loops[i] =
       [@ EXCEPT !.pc = "exited",
                 !.stream = IF outcome = "released" THEN "closed" ELSE @,
                 !.audio = IF outcome = "released" THEN "terminated" ELSE @]]
  /\ UNCHANGED <<now, sel, face_tracker, yolo_detector, gaze_tracker,
                 audio_surveillance, appVars, histVars>>

(* AudioSurveillance() *)
MonitorInit ==
  /\ now = Epoch
  /\ sel = "monitor"
  /\ face_tracker = FaceTrackerInit
  /\ yolo_detector = YOLODetectorInit
  /\ gaze_tracker = GazeTrackerInit
  /\ monitors = <<AudioSurveillanceInit @@ [loops |-> <<>>]>>
  /\ audio_surveillance = 1
  /\ AppIdle
  /\ lastCall = NoCall
  /\ emitted = <<>>
  /\ run = NoRun
  /\ scen = Derailed

MonitorNext ==
  \/ AppTick
  \/ StartMonitoring(1, "s1")
  \/ StopMonitoring(1)
  \/ \E i \in 1..MaxLoops, outcome \in OpenOutcomes : LoopOpen(1, i, outcome)
  \/ \E i \in 1..MaxLoops : LoopTest(1, i)
  \/ \E i \in 1..MaxLoops, window \in MonitorWindows, logged \in BOOLEAN :
       LoopWindow(1, i, window, logged)
  \/ \E i \in 1..MaxLoops, p \in MonitorProviders, logged \in BOOLEAN :
       LoopTranscribe(1, i, p, logged)
  \/ \E i \in 1..MaxLoops, outcome \in CleanupOutcomes :
       LoopCleanup(1, i, outcome)

SpecMonitor == MonitorInit /\ [][MonitorNext]_vars

(* one session under way: s1 logged in, /exam served, its /video_feed    *)
(* generator running and its audio loop monitoring                        *)
FrameFrames ==
  { AppFrame(1, <<"person">>, GazeFrame(TRUE, TRUE, 0, 0, 0, 30, 30)),
    AppFrame(2, <<"cell phone">>, GazeFrame(TRUE, TRUE, 5, 35, 0, 30, 30)) }

FrameInit ==
  /\ now = Epoch
  /\ sel = "frame"
  /\ face_tracker = FaceTrackerInit
  /\ yolo_detector = YOLODetectorInit
  /\ gaze_tracker = GazeTrackerInit
  /\ monitors = <<Monitoring("s1")>>
  /\ audio_surveillance = 1
  /\ camera = TRUE
  /\ alert_count = 0
  /\ alerts = <<>>
  /\ session = [c \in Clients |-> IF c = "s1" THEN Some(c) ELSE None]
  /\ streams = [c \in Clients |-> IF c = "s1" THEN [pc |-> "loop"] ELSE Idle]
  /\ since = 0
  /\ incs = 0
  /\ lastCall = NoCall
  /\ emitted = <<>>
  /\ run = NoRun
  /\ scen = Derailed

FrameNext ==
  \/ AppTick
  \/ GenerateFramesTest("s1")
  \/ \E got \in BOOLEAN, frame \in FrameFrames :
       GenerateFrames("s1", got, frame)
  \/ \E raises \in BOOLEAN : ProcessFace("s1", raises)
  \/ \E raises \in BOOLEAN : ProcessObjects("s1", raises)
  \/ \E raises \in BOOLEAN : ProcessGaze("s1", raises)
  \/ LogAlertLoad("s1")
  \/ LogAlertStore("s1")
  \/ \E imwrite \in ImwriteOutcomes, raises \in BOOLEAN :
       LogAlertInsert("s1", imwrite, raises)
  \/ \E window \in AudioWindows, logged \in BOOLEAN :
       MonitorAudio(1, window, logged)
  \/ \E p \in Providers, logged \in BOOLEAN : TranscribeWindow(1, p, logged)

SpecFrame == FrameInit /\ [][FrameNext]_vars

(* ------------------------- reset and replay ---------------------------- *)
(* one observation reaching its evaluator *)
Observation(ev, inp) == [ev |-> ev, inp |-> inp]
ReplayInputs ==
  { Observation("face", 0), Observation("face", 1),
    Observation("yolo", <<"cell phone">>),
    Observation("gaze", Scenario4Away),
    Observation("audio", <<"contest">>) }

(* the evaluators and the alert after the observation o reached its     *)
(* evaluator at time t                                                    *)
Observed(o, t) ==
  LET f == IF o.ev = "face" THEN detect_faces(face_tracker, t, o.inp)
           ELSE [self |-> face_tracker, alert |-> NoAlert]
      y == IF o.ev = "yolo" THEN detect_objects(yolo_detector, t, o.inp, FALSE)
           ELSE [self |-> yolo_detector, alert |-> NoAlert]
      g == IF o.ev = "gaze" THEN track_gaze(gaze_tracker, t, o.inp)
           ELSE [self |-> gaze_tracker, alert |-> NoAlert]
      a == IF o.ev = "audio"
           THEN check_suspicious_content(monitors[audio_surveillance], t, t,
                                         o.inp)
           ELSE [self |-> monitors[audio_surveillance], alert |-> NoAlert]
  IN [face |-> f.self, yolo |-> y.self, gaze |-> g.self, audio |-> a.self,
      alert |-> IF o.ev = "face" THEN f.alert
                ELSE IF o.ev = "yolo" THEN y.alert
                ELSE IF o.ev = "gaze" THEN g.alert ELSE a.alert]

Observing(r) ==
  /\ face_tracker' = r.face
  /\ yolo_detector' = r.yolo
  /\ gaze_tracker' = r.gaze
  /\ monitors' = [monitors EXCEPT ![audio_surveillance] = r.audio]
  /\ UNCHANGED <<sel, audio_surveillance, appVars, run>>

(* the first session, from /exam to the reset *)
Recording == scen.how = "none" /\ camera /\ Len(monitors) = 1
(* the session after the reset: reset_timers was called, or /exam made   *)
(* new evaluators after a logout                                          *)
HowReset ==
  IF scen.how = "reset_timers" THEN "reset_timers"
  ELSE IF camera /\ Len(monitors) > 1 THEN "exam" ELSE "none"

ResetInit ==
  /\ now = Epoch
  /\ sel = "reset"
  /\ face_tracker = FaceTrackerInit
  /\ yolo_detector = YOLODetectorInit
  /\ gaze_tracker = GazeTrackerInit
  /\ monitors = <<Monitoring("s1")>>
  /\ audio_surveillance = 1
  /\ camera = TRUE
  /\ alert_count = 0
  /\ alerts = <<>>
  /\ session = [c \in Clients |-> IF c = "s1" THEN Some(c) ELSE None]
  /\ streams = [c \in Clients |-> Idle]
  /\ since = 0
  /\ incs = 0
  /\ lastCall = NoCall
  /\ emitted = <<>>
  /\ run = NoRun
  /\ scen = [i |-> 0, t0 |-> 0, how |-> "none"]

ReplayTick ==
  /\ Recording
  /\ now + Secs(1) <= Epoch + Secs(ReplayHorizon)
  /\ now' = now + Secs(1)
  /\ UNCHANGED <<sel, evalVars, appVars, histVars>>

(* an observation of the first session *)
Observe(o) ==
  /\ Recording
  /\ Len(emitted) < MaxReplay
  /\ LET r == Observed(o, now)
     IN /\ Observing(r)
        /\ emitted' = Append(emitted, [t |-> now, inp |-> o, alert |-> r.alert])
        /\ lastCall' = [ev |-> "record", t1 |-> now, t |-> now, inp |-> o,
                        alert |-> r.alert, pre |-> 0]
  /\ UNCHANGED <<now, scen>>

(* face_tracker.reset_timers() *)
ResetSession ==
  /\ Recording
  /\ emitted # <<>>
  /\ face_tracker' = reset_timers(face_tracker)
  /\ scen' = [scen EXCEPT !.how = "reset_timers"]
  /\ UNCHANGED <<now, sel, yolo_detector, gaze_tracker, audio_surveillance,
                 monitors, appVars, lastCall, emitted, run>>

(* GET /logout that ends the first session *)
EndSession(c) ==
  /\ Recording
  /\ emitted # <<>>
  /\ Logout(c)

(* the next observation of the recorded sequence, at the offset it had   *)
(* from the first one                                                     *)
Replay ==
  /\ HowReset # "none"
  /\ scen.i < Len(emitted)
  /\ LET k == scen.i + 1
         t == IF k = 1 THEN now ELSE scen.t0 + (emitted[k].t - emitted[1].t)
         r == Observed(emitted[k].inp, t)
     IN /\ now' = t
        /\ Observing(r)
        /\ scen' = [scen EXCEPT !.i = k, !.t0 = IF k = 1 THEN t ELSE @]
        /\ lastCall' = [ev |-> "replay", t1 |-> t, t |-> t,
                        inp |-> emitted[k].inp, alert |-> r.alert, pre |-> 0,
                        was |-> emitted[k].alert, how |-> HowReset,
                        off |-> t - (IF k = 1 THEN t ELSE scen.t0)]
  /\ UNCHANGED emitted

ResetNext ==
  \/ ReplayTick
  \/ \E o \in ReplayInputs : Observe(o)
  \/ ResetSession
  \/ EndSession("s1")
  \/ Login("s1")
  \/ StartExam("s1")
  \/ Replay

SpecReset == ResetInit /\ [][ResetNext]_vars

(* ------------------------- concurrent /exam ---------------------------- *)
(* GET /exam up to the test  if camera is None, taken when it passes;    *)
(* the request keeps the session it arrived with                          *)
ExamTest(c) ==
  /\ session[c] # None
  /\ streams[c] = Idle
  /\ ~camera
  /\ Len(monitors) <= MaxMonitors
  /\ streams' = [streams EXCEPT
                   ![c] = [pc |-> "exam_init", student_id |-> Val(session[c])]]
  /\ UNCHANGED <<now, sel, evalVars, camera, alert_count, alerts, session,
                 since, incs, histVars>>

(* GET /exam after the test passed: the camera, the detectors and the    *)
(* audio thread are created and assigned to the globals                   *)
ExamCreate(c) ==
  /\ streams[c].pc = "exam_init"
  /\ camera' = TRUE
  /\ face_tracker' = FaceTrackerInit
  /\ yolo_detector' = YOLODetectorInit
  /\ gaze_tracker' = GazeTrackerInit
  /\ monitors' = Append(monitors, Monitoring(streams[c].student_id))
  /\ audio_surveillance' = Len(monitors) + 1
  /\ streams' = [streams EXCEPT ![c] = Idle]
  /\ UNCHANGED <<now, sel, alert_count, alerts, session, since, incs,
                 histVars>>

ExamInit == AppStart("exam")

ExamNext ==
  \/ \E c \in Clients : Login(c)
  \/ \E c \in Clients : ExamTest(c)
  \/ \E c \in Clients : ExamCreate(c)
  \/ \E c \in Clients : Logout(c)

SpecExam == ExamInit /\ [][ExamNext]_vars



(* ============================== claims ================================= *)
CooldownOf(ev) ==
  CASE ev = "face" -> FaceTracker_alert_cooldown
    [] ev = "yolo" -> YOLODetector_alert_cooldown
    [] ev = "gaze" -> GazeTracker_alert_cooldown
    [] OTHER -> AudioSurveillance_alert_cooldown

ThresholdOf(ev) ==
  IF ev = "face" THEN FaceTracker_alert_threshold
  ELSE GazeTracker_alert_threshold

(* the latest call was a violating observation of a duration evaluator *)
ViolatingCall ==
  \/ lastCall.ev = "face" /\ lastCall.inp # 1
  \/ lastCall.ev = "gaze" /\ GazeKind(lastCall.inp) = "away"

(* alerts the current run had emitted before the latest call *)
AlertsBefore == run.n - (IF lastCall.alert # NoAlert THEN 1 ELSE 0)

Persons(boxes) == Cardinality({i \in DOMAIN boxes : boxes[i] = "person"})
Prohibited(boxes) ==
  {c \in ProhibitedClasses : \E i \in DOMAIN boxes : boxes[i] = c}

(* C1: any two alerts emitted by the same evaluator have timestamps that  *)
(* differ by more than that evaluator's cooldown.                          *)
C1_CooldownInvariant ==
  \A i, j \in 1..Len(emitted) :
    i < j => emitted[j].t - emitted[i].t > Secs(CooldownOf(sel))

(* two alerts of one evaluator, and a later candidate that was dropped *)
C1_Witness ==
  /\ Len(emitted) >= 2
  /\ lastCall.alert = NoAlert
  /\ lastCall.t > emitted[Len(emitted)].t

(* C2: no alert is emitted at a violating observation whose run of        *)
(* violations since the last nominal observation is shorter than the      *)
(* threshold, whatever violations preceded that nominal observation.      *)
C2_Continuity ==
  (lastCall.ev \in {"face", "gaze"} /\ lastCall.alert # NoAlert) =>
    /\ ViolatingCall
    /\ run.vsince # None
    /\ ~(lastCall.t - Val(run.vsince) < Secs(ThresholdOf(lastCall.ev)))

(* a run long enough to alert, then a nominal observation, then a        *)
(* violating observation in a new, short run, past the cooldown: no alert *)
C2_Witness ==
  /\ ViolatingCall
  /\ emitted # <<>>
  /\ Val(run.vsince) > emitted[Len(emitted)].t
  /\ lastCall.t - emitted[Len(emitted)].t > Secs(CooldownOf(lastCall.ev))
  /\ lastCall.t - Val(run.vsince) > 0
  /\ lastCall.t - Val(run.vsince) < Secs(ThresholdOf(lastCall.ev))
  /\ lastCall.alert = NoAlert

(* C5 as stated: Scenario 1 produces exactly one no-face alert.           *)
C5_Original ==
  scen.i = Len(Scenario1) =>
    Len(SelectSeq(emitted, LAMBDA a : a.kind = "NO_FACE")) = 1

(* C5 as amended: Scenario 1 produces no alert (its last zero is seen     *)
(* exactly alert_threshold after the first); a no-face alert is emitted   *)
(* only at a zero observation more than alert_threshold after the first   *)
(* zero of the run, and the first such observation of a run emits it.     *)
C5_AbsenceAlert ==
  /\ scen.i = Len(Scenario1) => emitted = <<>>
  /\ (lastCall.ev = "face" /\ lastCall.alert.kind = "NO_FACE") =>
       /\ lastCall.inp = 0
       /\ lastCall.t - Val(run.since) > Secs(FaceTracker_alert_threshold)
  /\ ( /\ lastCall.ev = "face"
       /\ lastCall.inp = 0
       /\ lastCall.t - Val(run.since) > Secs(FaceTracker_alert_threshold)
       /\ AlertsBefore = 0 ) =>
       lastCall.alert = Msg("NO_FACE", 0, {})

C5_Witness == scen.i = Len(Scenario1)

(* C6 as stated: a count above 1 for at least alert_threshold emits the   *)
(* multiple-faces alert carrying the current count.                        *)
C6_Original ==
  ( /\ lastCall.ev = "face"
    /\ lastCall.inp > 1
    /\ lastCall.t - Val(run.since) >= Secs(FaceTracker_alert_threshold)
    /\ lastCall.t - lastCall.pre > Secs(FaceTracker_alert_cooldown) ) =>
    lastCall.alert = Msg("MULTIPLE_FACES", lastCall.inp, {})

(* C6 as amended: at an observation with count N > 1 the multiple-faces   *)
(* alert is emitted, carrying N, exactly when the count has been above 1  *)
(* for more than alert_threshold and the cooldown has elapsed.             *)
C6_MultiplicityAlert ==
  /\ (lastCall.ev = "face" /\ lastCall.inp > 1) =>
       ( lastCall.alert = Msg("MULTIPLE_FACES", lastCall.inp, {})
         <=> /\ lastCall.t - Val(run.since)
                  > Secs(FaceTracker_alert_threshold)
             /\ lastCall.t - lastCall.pre
                  > Secs(FaceTracker_alert_cooldown) )
  /\ (lastCall.ev = "face" /\ lastCall.inp > 1) =>
       lastCall.alert \in {NoAlert, Msg("MULTIPLE_FACES", lastCall.inp, {})}
  /\ (lastCall.ev = "face" /\ lastCall.alert.kind = "MULTIPLE_FACES") =>
       lastCall.inp > 1

C6_Witness ==
  /\ lastCall.ev = "face"
  /\ lastCall.alert = Msg("MULTIPLE_FACES", MaxFaces, {})

(* C7: at most one of no_face_start_time and multiple_faces_start_time    *)
(* is set, and after an observation with exactly one face neither is.     *)
C7_TimersExclusive ==
  /\ ~(face_tracker.no_face_start_time # None
       /\ face_tracker.multiple_faces_start_time # None)
  /\ (lastCall.ev = "face" /\ lastCall.inp = 1) =>
       /\ face_tracker.no_face_start_time = None
       /\ face_tracker.multiple_faces_start_time = None

(* a single face seen right after a run of violations *)
C7_Witness ==
  /\ lastCall.ev = "face"
  /\ lastCall.inp = 1
  /\ emitted # <<>>

(* C8: a frame with a prohibited object (and at most one person), seen    *)
(* when the cooldown has elapsed, emits the prohibited-objects alert      *)
(* naming the set of detected classes; a detection within the cooldown   *)
(* of the last alert (1s later) emits none.                                *)
C8_ObjectAlert ==
  /\ ( /\ lastCall.ev = "yolo"
       /\ ~lastCall.inp.raises
       /\ Prohibited(lastCall.inp.boxes) # {}
       /\ Persons(lastCall.inp.boxes) <= 1
       /\ lastCall.t - lastCall.pre > Secs(YOLODetector_alert_cooldown) ) =>
       lastCall.alert =
         Msg("SUSPICIOUS_OBJECTS", 0, Prohibited(lastCall.inp.boxes))
  /\ ( /\ lastCall.ev = "yolo"
       /\ lastCall.t - lastCall.pre <= Secs(YOLODetector_alert_cooldown) ) =>
       lastCall.alert = NoAlert

(* Scenario 2: one alert for the cell phone, the detection 1s later dropped *)
C8_Witness ==
  /\ lastCall.ev = "yolo"
  /\ lastCall.inp.boxes = <<"cell phone">>
  /\ ~lastCall.inp.raises
  /\ emitted = <<[t |-> lastCall.t - Secs(1), kind |-> "SUSPICIOUS_OBJECTS"]>>
  /\ lastCall.alert = NoAlert

(* the latest call was made on a frame with more than one person and a   *)
(* prohibited object, with the cooldown elapsed                            *)
CoOccurrence ==
  /\ lastCall.ev = "yolo"
  /\ ~lastCall.inp.raises
  /\ Persons(lastCall.inp.boxes) > 1
  /\ Prohibited(lastCall.inp.boxes) # {}
  /\ lastCall.t - lastCall.pre > Secs(YOLODetector_alert_cooldown)

(* the alerts one invocation yields: its single alert_message, if any *)
Yielded == {lastCall.alert.kind} \ {"none"}

(* C9 as stated: such an invocation yields both alerts.                   *)
C9_Original ==
  CoOccurrence => {"MULTIPLE_PEOPLE", "SUSPICIOUS_OBJECTS"} \subseteq Yielded

(* C9 as amended: such an invocation yields one alert, the                *)
(* multiple-people alert; the prohibited-objects candidate is dropped.    *)
C9_OnlyPeopleAlert ==
  CoOccurrence =>
    /\ lastCall.alert = Msg("MULTIPLE_PEOPLE", Persons(lastCall.inp.boxes), {})
    /\ yolo_detector.last_alert_time = lastCall.t

C9_Witness == CoOccurrence /\ emitted # <<>>

(* C10: a transcript with a keyword, checked when no alert has been       *)
(* emitted yet, yields the suspicious-speech alert; a transcript whose   *)
(* check ends within alert_cooldown of the last alert yields no alert.   *)
C10_SpeechCooldown ==
  /\ ( /\ lastCall.ev = "audio"
       /\ DetectedKeywords(lastCall.inp) # {}
       /\ lastCall.pre = 0 ) =>
       lastCall.alert.kind = "SUSPICIOUS_SPEECH"
  /\ ( /\ lastCall.ev = "audio"
       /\ lastCall.t - lastCall.pre
            <= Secs(AudioSurveillance_alert_cooldown) ) =>
       lastCall.alert = NoAlert

(* Scenario 3: the keyword alert, then 15 neutral words in its cooldown *)
C10_Witness ==
  /\ lastCall.ev = "audio"
  /\ Len(emitted) = 1
  /\ emitted[1].kind = "SUSPICIOUS_SPEECH"
  /\ lastCall.inp = Um(ContinuousSpeechWords + ExtraWords)
  /\ lastCall.t > emitted[1].t
  /\ lastCall.t - emitted[1].t <= Secs(AudioSurveillance_alert_cooldown)
  /\ lastCall.alert = NoAlert

(* rows appended to the alerts table since the last logout *)
RowsSinceReset == Len(alerts) - since

(* a video stream is inside log_alert, past the increment and before the *)
(* INSERT                                                                  *)
InsideLogAlert == \E c \in Clients : streams[c].pc = "log_insert"

(* C3: whenever no log_alert call is between its increment and its       *)
(* INSERT, alert_count equals the number of rows recorded in the alerts  *)
(* table since the last reset, whichever path recorded them.              *)
C3_CounterEqualsRows == ~InsideLogAlert => alert_count = RowsSinceReset

(* C4: the increments of alert_count are serialized: the counter has     *)
(* grown by one for every increment completed since the last reset, and  *)
(* no two rows recorded since then carry the same counter value in their *)
(* screenshot path.                                                       *)
C4_Serialized ==
  /\ alert_count = incs
  /\ \A i, j \in (since + 1)..Len(alerts) :
       i < j => alerts[i].screenshot_path # alerts[j].screenshot_path

(* the first clock read of the latest call was outside the cooldown *)
OutsideCooldown ==
  lastCall.t1 - lastCall.pre > Secs(CooldownOf(lastCall.ev))

(* C11: a transcript that contains a keyword and has more than 10 words   *)
(* never yields the continuous-speech message: the call returns the      *)
(* suspicious-speech message or nothing.                                  *)
C11_KeywordPriority ==
  ( /\ lastCall.ev = "audio"
    /\ DetectedKeywords(lastCall.inp) # {}
    /\ Len(lastCall.inp) > ContinuousSpeechWords ) =>
    lastCall.alert.kind \in {"none", "SUSPICIOUS_SPEECH"}

(* the keywords a reader finds in the transcripts, whatever their case *)
ExpectedKeywords(transcription) ==
  CASE transcription = <<"can", "you", "Tell", "me", "the", "ANSWER">>
         -> {"tell me", "answer"}
    [] transcription = <<"Cheating">> \o Um(ContinuousSpeechWords)
         -> {"cheat", "cheating"}
    [] transcription = <<"contest">> -> {"test"}
    [] OTHER -> {}

(* C12: outside a cooldown window, a transcript with no keyword yields   *)
(* the continuous-speech alert exactly when it has more than 10 words,   *)
(* and a transcript with a keyword in any letter case yields the         *)
(* suspicious-speech alert listing every matched keyword.                 *)
C12_SpeechAlerts ==
  (lastCall.ev = "audio" /\ OutsideCooldown) =>
    LET kw == ExpectedKeywords(lastCall.inp)
    IN /\ kw = {} =>
            lastCall.alert =
              (IF Len(lastCall.inp) > ContinuousSpeechWords
               THEN Msg("CONTINUOUS_SPEECH", 0, {}) ELSE NoAlert)
       /\ kw # {} => lastCall.alert = Msg("SUSPICIOUS_SPEECH", 0, kw)

(* outside a cooldown: the mixed-case keyword transcript has alerted *)
C12_Witness ==
  /\ lastCall.ev = "audio"
  /\ OutsideCooldown
  /\ lastCall.pre > 0
  /\ lastCall.inp = <<"can", "you", "Tell", "me", "the", "ANSWER">>
  /\ lastCall.alert = Msg("SUSPICIOUS_SPEECH", 0, {"tell me", "answer"})

(* Scenario 4 has been fed up to and including its k-th observation *)
Scenario4At(k) == sel = "gaze" /\ Scen4Progress = k

(* C13 as stated: Scenario 4 produces exactly one looking-away alert, at *)
(* the observation 3 s after the first.                                   *)
C13_Original ==
  Scenario4At(Len(Scenario4)) =>
    emitted = <<[t |-> scen.t0 + Secs(GazeTracker_alert_threshold),
                 kind |-> "LOOKING_AWAY"]>>

(* C13 as amended: Scenario 4 produces exactly one looking-away alert,   *)
(* at the first observation more than 3 s after the first one (3.5 s     *)
(* with two observations per second) and none at 3 s; the frame at 1.5 s *)
(* with both eyes closed leaves looking_away_start_time at the time of   *)
(* the first observation.                                                 *)
C13_GazeAlert ==
  /\ (sel = "gaze" /\ Scen4Progress >= 1) =>
       gaze_tracker.looking_away_start_time = Some(scen.t0)
  /\ ( /\ sel = "gaze"
       /\ Scen4Progress >= 1
       /\ Scen4Progress <= Secs(GazeTracker_alert_threshold) + 1 ) =>
       emitted = <<>>
  /\ ( /\ sel = "gaze"
       /\ Scen4Progress > Secs(GazeTracker_alert_threshold) + 1 ) =>
       emitted = <<[t |-> scen.t0 + Secs(GazeTracker_alert_threshold) + 1,
                    kind |-> "LOOKING_AWAY"]>>

C13_Witness == Scenario4At(Len(Scenario4))

(* the latest call was track_gaze on a frame with landmarks in which    *)
(* both eye aspect ratios are below 0.2                                   *)
BlinkCall ==
  /\ lastCall.ev = "gaze"
  /\ lastCall.inp.landmarks
  /\ lastCall.inp.left_ear < BlinkEar
  /\ lastCall.inp.right_ear < BlinkEar

(* C14: a frame in which both eye aspect ratios are below 0.2 emits no   *)
(* alert and leaves looking_away_start_time as it was before the frame,  *)
(* whatever the head pose.                                                *)
C14_BlinkNeutral ==
  BlinkCall =>
    /\ lastCall.alert = NoAlert
    /\ gaze_tracker.looking_away_start_time = lastCall.start

(* C15: a frame without landmarks emits no alert and leaves              *)
(* looking_away_start_time and last_alert_time unchanged, and a          *)
(* looking-away alert is emitted only when the looking-away observations *)
(* that led up to it, with no frame without landmarks between them, span *)
(* the threshold.                                                         *)
C15_NoLandmarksSkip ==
  /\ (lastCall.ev = "gaze" /\ ~lastCall.inp.landmarks) =>
       /\ lastCall.alert = NoAlert
       /\ gaze_tracker.looking_away_start_time = lastCall.start
       /\ gaze_tracker.last_alert_time = lastCall.pre
  /\ (lastCall.ev = "gaze" /\ lastCall.alert # NoAlert) =>
       /\ lastCall.osince # None
       /\ lastCall.t - Val(lastCall.osince)
            >= Secs(GazeTracker_alert_threshold)

(* the angles calculate_head_pose hands to is_looking_away for a frame *)
PitchOf(frame) == IF frame.solved THEN frame.pitch ELSE 0
YawOf(frame) == IF frame.solved THEN frame.yaw ELSE 0

LastAlertTime ==
  CASE lastCall.ev = "face" -> face_tracker.last_alert_time
    [] lastCall.ev = "yolo" -> yolo_detector.last_alert_time
    [] lastCall.ev = "gaze" -> gaze_tracker.last_alert_time
    [] OTHER -> monitors[audio_surveillance].last_alert_time

(* the observation of the latest call is a violating one *)
CandidateInput ==
  CASE lastCall.ev = "face" -> lastCall.inp # 1
    [] lastCall.ev = "yolo" ->
         \/ Persons(lastCall.inp.boxes) > 1
         \/ Prohibited(lastCall.inp.boxes) # {}
    [] lastCall.ev = "gaze" -> GazeKind(lastCall.inp) = "away"
    [] OTHER ->
         \/ ExpectedKeywords(lastCall.inp) # {}
         \/ Len(lastCall.inp) > ContinuousSpeechWords

(* C17: in every evaluator a call made when now - last_alert_time is not *)
(* greater than the cooldown returns no alert; a call that returns no    *)
(* alert leaves last_alert_time unchanged; a call that returns an alert  *)
(* was given a violating observation and sets last_alert_time to the     *)
(* clock value it read for it.                                            *)
C17_SilentDrop ==
  lastCall.ev # "none" =>
    /\ lastCall.t - lastCall.pre <= Secs(CooldownOf(lastCall.ev)) =>
         lastCall.alert = NoAlert
    /\ lastCall.alert = NoAlert => LastAlertTime = lastCall.pre
    /\ lastCall.alert # NoAlert =>
         /\ CandidateInput
         /\ LastAlertTime =
              (IF lastCall.alert.kind = "SUSPICIOUS_SPEECH"
               THEN lastCall.t1 ELSE lastCall.t)

(* more than one face for longer than the threshold, seen again inside   *)
(* the cooldown of the alert that run produced: dropped                   *)
C17_Witness ==
  /\ lastCall.ev = "face"
  /\ lastCall.inp > 1
  /\ run.n = 1
  /\ lastCall.t - Val(run.since) > Secs(FaceTracker_alert_threshold)
  /\ lastCall.pre > 0
  /\ lastCall.t > lastCall.pre
  /\ lastCall.t - lastCall.pre <= Secs(FaceTracker_alert_cooldown)
  /\ lastCall.alert = NoAlert
  /\ face_tracker.last_alert_time = lastCall.pre

(* the root mean square of the samples is above silence_threshold *)
RmsAboveFloor(samples) ==
  /\ samples # <<>>
  /\ SumSeq([i \in 1..Len(samples) |-> samples[i] * samples[i]])
       > silence_threshold * silence_threshold * Len(samples)

(* C18: a turn of the audio loop invokes _transcribe_audio only for a    *)
(* window whose RMS is above silence_threshold; a window at or below it  *)
(* is not transcribed, yields no alert and adds no row.                   *)
C18_SilenceGating ==
  lastCall.ev = "window" =>
    /\ lastCall.transcribed => RmsAboveFloor(lastCall.inp.samples)
    /\ ~RmsAboveFloor(lastCall.inp.samples) =>
         /\ ~lastCall.transcribed
         /\ lastCall.alert = NoAlert
         /\ Len(alerts) = lastCall.rows

(* a recorded window exactly at the floor, in which a keyword was said *)
C18_Witness ==
  /\ lastCall.ev = "window"
  /\ lastCall.inp.recorded
  /\ lastCall.inp.samples = Samples(silence_threshold)
  /\ ExpectedKeywords(lastCall.inp.provider.text.words) # {}
  /\ ~lastCall.transcribed
  /\ lastCall.alert = NoAlert

(* the provider of the latest turn failed or produced nothing *)
NoTranscription(p) == p.raises \/ p.text.words = <<>>

(* C19: a turn whose transcription fails or produces nothing returns no  *)
(* alert, adds no row and leaves last_alert_time unchanged, and the loop *)
(* keeps no trace of the window.                                          *)
C19_FailedTranscription ==
  ( /\ lastCall.ev \in {"window", "transcribe"}
    /\ lastCall.transcribed
    /\ NoTranscription(IF lastCall.ev = "window" THEN lastCall.inp.provider
                       ELSE lastCall.inp) ) =>
    /\ lastCall.alert = NoAlert
    /\ Len(alerts) = lastCall.rows
    /\ monitors[1] =
         [Monitoring("s1") EXCEPT !.last_alert_time = lastCall.pre]

(* the provider threw on a window in which a keyword was said, outside   *)
(* any cooldown, after an earlier window had alerted                      *)
C19_Witness ==
  /\ lastCall.ev = "transcribe"
  /\ lastCall.inp.raises
  /\ ExpectedKeywords(lastCall.inp.text.words) # {}
  /\ lastCall.pre > 0
  /\ lastCall.t - lastCall.pre > Secs(AudioSurveillance_alert_cooldown)
  /\ lastCall.alert = NoAlert
  /\ Len(alerts) = 1

(* the latest log_alert could not write its screenshot, and nothing     *)
(* else in it failed                                                      *)
EvidenceFailed ==
  /\ lastCall.ev = "log_alert"
  /\ lastCall.inp.imwrite # "written"
  /\ ~lastCall.inp.raises

(* C20: a log_alert whose screenshot could not be written still appends  *)
(* its row, with a null screenshot_path, and returns to frame            *)
(* processing.                                                            *)
C20_EvidenceFailureAbsorbed ==
  EvidenceFailed =>
    /\ ~lastCall.aborted
    /\ lastCall.row # None
    /\ Val(lastCall.row).screenshot_path = None

(* C21: once a client has logged out, and until it logs in again, no    *)
(* row is appended to the alerts table: neither the frame loop that was *)
(* serving the client nor the audio loop started for it in /exam        *)
(* records anything after the teardown.  With the single client of      *)
(* AppClients every row is that client's.                                *)
C21_NoAlertAfterTeardown ==
  [][(\A c \in AppClients : session[c] = None) => alerts' = alerts]_vars

(* C23: a step of generate_frames that finds the camera torn down ends  *)
(* the generator by a normal return, whatever point of the loop the      *)
(* logout fell on.                                                        *)
C23_VideoLoopTerminates ==
  (lastCall.ev = "generate_frames" /\ lastCall.torn)
    => lastCall.ended = "returned"

(* C24: for a client that is logged in before and after a step, the     *)
(* step does not lower alert_count: the counter a session reads goes     *)
(* down only at that session's own logout.                                *)
C24_CounterMonotone ==
  [][\A c \in Clients :
       (session[c] # None /\ session'[c] # None)
         => alert_count' >= alert_count]_vars

(* C27: an evaluator call of process_detections whose detector raised   *)
(* yields no alert, leaves the evaluator's attributes as they were, and  *)
(* the frame goes on to the evaluators after it and to the next frame.   *)
C27_PerceptionFailureDegrades ==
  (lastCall.ev = "perception" /\ lastCall.inp.raises) =>
    /\ lastCall.alert = NoAlert
    /\ lastCall.kept
    /\ lastCall.continued

(* the latest track_gaze call saw a face whose pose is neutral: the      *)
(* solve failed, or it succeeded with pitch = yaw = 0                     *)
NeutralCall ==
  /\ lastCall.ev = "gaze"
  /\ lastCall.inp.landmarks
  /\ \/ ~lastCall.inp.solved
     \/ lastCall.inp.pitch = 0 /\ lastCall.inp.yaw = 0

(* C26: a failed head-pose solve yields the pose (0,0,0) whatever the    *)
(* solver left behind, and a track_gaze call on a neutral pose, eyes     *)
(* open or closed, is not flagged: it returns no alert and clears        *)
(* looking_away_start_time, so no run of failed solves can reach the     *)
(* alert.                                                                  *)
C26_NeutralPoseNoAlert ==
  /\ \A frame \in GazeFrames :
       ~frame.solved => calculate_head_pose(frame) = <<0, 0, 0>>
  /\ NeutralCall =>
       /\ lastCall.alert = NoAlert
       /\ gaze_tracker.looking_away_start_time = None
       /\ gaze_tracker.last_alert_time = lastCall.pre

(* a failed solve on a frame whose unsolved angles are beyond the        *)
(* threshold, arriving when a looking-away run was past the alert        *)
(* threshold and the cooldown                                              *)
C26_Witness ==
  /\ NeutralCall
  /\ ~lastCall.inp.solved
  /\ Abs(lastCall.inp.yaw) > head_pose_threshold
  /\ lastCall.start # None
  /\ lastCall.t - Val(lastCall.start) > Secs(GazeTracker_alert_threshold)
  /\ lastCall.t - lastCall.pre > Secs(GazeTracker_alert_cooldown)

(* C29: a step in which one evaluator processes an observation leaves   *)
(* the attributes of the three other evaluators as they were: the face  *)
(* step of a frame those of the object, gaze and speech evaluators, and  *)
(* so on; a turn of the audio loop (a step that is neither the frame     *)
(* loop's nor the clock's) those of the three video evaluators.           *)
C29_EvaluatorIsolation ==
  [][/\ (streams["s1"].pc = "face" /\ streams'["s1"] # streams["s1"])
          => UNCHANGED <<yolo_detector, gaze_tracker, monitors>>
     /\ (streams["s1"].pc = "yolo" /\ streams'["s1"] # streams["s1"])
          => UNCHANGED <<face_tracker, gaze_tracker, monitors>>
     /\ (streams["s1"].pc = "gaze" /\ streams'["s1"] # streams["s1"])
          => UNCHANGED <<face_tracker, yolo_detector, monitors>>
     /\ (streams' = streams /\ now' = now)
          => UNCHANGED <<face_tracker, yolo_detector, gaze_tracker>>]_vars

(* all four evaluators have alerted at the same instant, the gaze        *)
(* evaluator last: none of the alerts kept another back                   *)
C29_Witness ==
  /\ lastCall.ev = "perception"
  /\ lastCall.inp.evaluator = "gaze"
  /\ lastCall.alert # NoAlert
  /\ lastCall.t > Epoch
  /\ face_tracker.last_alert_time = lastCall.t
  /\ yolo_detector.last_alert_time = lastCall.t
  /\ monitors[1].last_alert_time = lastCall.t

(* the threads of the instance under SpecMonitor *)
Loops == monitors[1].loops

(* C22: a loop that left `while self.is_monitoring` because               *)
(* stop_monitoring had cleared the flag has, once it has exited, closed   *)
(* its microphone stream and terminated its PyAudio handle.                *)
C22_CooperativeStop ==
  \A i \in 1..Len(Loops) :
    (Loops[i].left = "stopped" /\ Loops[i].pc = "exited")
      => (Loops[i].stream = "closed" /\ Loops[i].audio = "terminated")

(* C30: at most one thread of the instance is inside the while loop of   *)
(* _monitor_audio at any time.                                            *)
C30_SingleLoop ==
  \A i, j \in 1..Len(Loops) :
    (Loops[i].pc \in {"test", "window"} /\ Loops[j].pc \in {"test", "window"})
      => i = j

(* thread i is inside the while loop of _monitor_audio *)
InLoop(loops, i) == loops[i].pc \in {"test", "window"}

(* C28: a thread leaves the while loop of _monitor_audio only at the     *)
(* loop test and only with is_monitoring cleared: no turn of the loop,   *)
(* whatever failed in it (the recording, the RMS, the transcription, the *)
(* INSERT), ends the loop; after it the thread is back at the test.       *)
C28_LoopSurvivesFailures ==
  [][\A i \in 1..Len(Loops) :
       (InLoop(Loops, i) /\ ~InLoop(Loops', i))
         => (Loops[i].pc = "test" /\ ~monitors[1].is_monitoring)]_vars

(* the latest turn of the loop had a failure in it *)
TurnFailed ==
  \/ lastCall.ev = "window" /\ ~lastCall.inp.recorded
  \/ lastCall.ev = "transcribe" /\ lastCall.inp.raises
  \/ lastCall.ev = "transcribe" /\ lastCall.alert # NoAlert /\ ~lastCall.logged

(* after two failed turns, the later one a transcription that raised,    *)
(* with the first alert's INSERT failed before, the thread is in its     *)
(* next window                                                             *)
C28_Witness ==
  /\ TurnFailed
  /\ lastCall.ev = "transcribe"
  /\ lastCall.inp.raises
  /\ monitors[1].last_alert_time > 0
  /\ alerts = <<>>
  /\ monitors[1].is_monitoring
  /\ Loops[lastCall.thread].pc = "window"

(* the replayed observation of a session that followed a reset *)
Replayed == sel = "reset" /\ lastCall.ev = "replay"

(* C25 as stated: after a session reset, by reset_timers or by logout,  *)
(* login and /exam, an observation that produced an alert in the first   *)
(* session produces the same alert when the sequence is replayed with    *)
(* the same relative timing                                               *)
C25_Original ==
  (Replayed /\ lastCall.was # NoAlert) => lastCall.alert = lastCall.was

(* C25 Idempotence of reset: after logout followed by login and /exam    *)
(* every evaluator answers a replayed observation sequence as it did     *)
(* the first time, and after FaceTracker.reset_timers the FaceTracker    *)
(* does: the same alert, or none, at every offset                        *)
C25_ResetIdempotent ==
  (Replayed /\ (lastCall.how = "exam" \/ lastCall.inp.ev = "face"))
    => lastCall.alert = lastCall.was

(* the absence alert of the first session, given again after            *)
(* reset_timers at the same offset from the first observation            *)
C25_Witness ==
  /\ Replayed
  /\ lastCall.how = "reset_timers"
  /\ lastCall.inp.ev = "face"
  /\ lastCall.was.kind = "NO_FACE"
  /\ lastCall.alert = lastCall.was
  /\ lastCall.off = emitted[scen.i].t - emitted[1].t
  /\ lastCall.off > Secs(FaceTracker_alert_threshold)

(* C32: the RMS used for silence gating is the true root-mean-square of  *)
(* the window's int16 samples, so every recorded window whose true RMS   *)
(* exceeds silence_threshold is classified as speech and goes on to be   *)
(* transcribed.                                                           *)
C32_RmsFaithful ==
  (lastCall.ev = "window" /\ lastCall.inp.recorded)
    => (RmsAboveFloor(lastCall.inp.samples)
          => (contains_speech(lastCall.inp.samples) /\ lastCall.transcribed))

(* the duration timer the latest violating observation runs on *)
DurationTimer ==
  IF lastCall.ev = "gaze" THEN gaze_tracker.looking_away_start_time
  ELSE IF lastCall.inp = 0 THEN face_tracker.no_face_start_time
  ELSE face_tracker.multiple_faces_start_time

(* C33: emitting an alert does not reset a duration timer: at every      *)
(* violating observation the timer still holds the first observation of  *)
(* the run, whatever alerts the run has emitted, and once the run is     *)
(* longer than the threshold every observation made more than the        *)
(* cooldown after the evaluator's previous alert emits a further alert.  *)
C33_RepeatedAlerts ==
  (sel \in {"face", "gaze"} /\ ViolatingCall) =>
    /\ DurationTimer = run.since
    /\ ( /\ lastCall.t - Val(run.since) > Secs(ThresholdOf(lastCall.ev))
         /\ lastCall.t - lastCall.pre > Secs(CooldownOf(lastCall.ev)) )
         => lastCall.alert # NoAlert

(* the second alert of one uninterrupted run, more than a cooldown      *)
(* after the first                                                        *)
C33_Witness ==
  /\ sel \in {"face", "gaze"}
  /\ ViolatingCall
  /\ lastCall.alert # NoAlert
  /\ AlertsBefore >= 1
  /\ Len(emitted) >= 2
  /\ emitted[Len(emitted) - 1].t > Val(run.since)
  /\ lastCall.t - emitted[Len(emitted) - 1].t > Secs(CooldownOf(lastCall.ev))

(* the alert of the condition the face count inp is a violation of *)
FaceAlertOf(inp) ==
  IF inp = 0 THEN Msg("NO_FACE", 0, {}) ELSE Msg("MULTIPLE_FACES", inp, {})

(* C34: an alert of one FaceTracker condition never suppresses the      *)
(* first alert of the other: after any observation sequence, an          *)
(* observation at which a condition has been continuous for longer than  *)
(* alert_threshold, and whose run has not alerted yet, emits the alert   *)
(* of that condition, the shared last_alert_time being more than the     *)
(* cooldown in the past.                                                   *)
C34_NoCrossSuppression ==
  ( /\ lastCall.ev = "face"
    /\ lastCall.inp # 1
    /\ lastCall.t - Val(run.since) > Secs(FaceTracker_alert_threshold)
    /\ AlertsBefore = 0 ) =>
    /\ lastCall.alert = FaceAlertOf(lastCall.inp)
    /\ lastCall.t - lastCall.pre > Secs(FaceTracker_alert_cooldown)

(* the first alert of a condition, at the earliest moment after an      *)
(* alert of the other condition                                           *)
C34_Witness ==
  /\ lastCall.ev = "face"
  /\ lastCall.inp # 1
  /\ AlertsBefore = 0
  /\ lastCall.alert = FaceAlertOf(lastCall.inp)
  /\ Len(emitted) >= 2
  /\ emitted[Len(emitted) - 1].kind # lastCall.alert.kind
  /\ emitted[Len(emitted) - 1].t = lastCall.pre
  /\ lastCall.t - lastCall.pre = Secs(FaceTracker_alert_threshold) + 1

(* the AudioSurveillance instances whose monitoring loop has not been   *)
(* told to stop                                                           *)
MonitoringInstances == {m \in DOMAIN monitors : monitors[m].is_monitoring}

(* C31: detector initialisation happens once per camera lifetime: for   *)
(* every interleaving of /exam requests and logouts at most one audio    *)
(* monitoring thread exists, none of an earlier camera lifetime being    *)
(* left running when /exam creates a new one.                             *)
C31_OncePerLifetime == Cardinality(MonitoringInstances) <= 1

====
